---- MODULE Spec2Model ----
(***************************************************************************)
(* Model of the encrypted-file credential store                            *)
(* (src/shared/keystore-native/src/platform/fallback.rs).                  *)
(*                                                                         *)
(* Strings are sequences of one-character strings; ":" is the delimiter    *)
(* of the plaintext layout.  An AEAD ciphertext is the symbolic term       *)
(* [k, n, pt]: it opens only under the key and nonce that sealed it.       *)
(* OsRng is a counter: every draw is a value never drawn before.           *)
(***************************************************************************)
EXTENDS Integers, Sequences, FiniteSets, TLC

VARIABLES
    file,      \* the data file: [exists, entries] (KeystoreData as persisted)
    keyFile,   \* the key file enc.key: 0 when absent or not KEY_SIZE bytes, else the key it holds
    store,     \* store[i]: the key cached by FallbackKeystore instance i, 0 when not constructed
    keyCtr,    \* number of keys drawn from OsRng so far
    nonceCtr,  \* number of nonces drawn from OsRng so far
    hist,      \* the calls that completed last, oldest first (as many as Init provides for)
    shadow,    \* per identity: never set, or the value of its last set_password, or deleted
    fkind,     \* what the bytes of the data file are: a document, or content that does not load
    fmode,     \* permission bits of the data file, NoMode when it does not exist
    keyMode,   \* permission bits of the key file, NoMode when it does not exist
    proc,      \* proc[i]: the call instance i is inside of, when calls of two instances interleave
    napi       \* the selection layer: the native adapter's state and the backend NapiKeystore holds

vars == <<file, keyFile, store, keyCtr, nonceCtr, hist, shadow,
          fkind, fmode, keyMode, proc, napi>>

----------------------------------------------------------------------------
(* Bounds of the model *)

MaxNonce == 3      \* set_password calls per behaviour of Spec (nonces drawn)
CodecMaxNonce == 2 \* set_password calls per behaviour of SpecCodec
KeysMaxNonce == 2  \* set_password calls per behaviour of SpecKeys and SpecPersist
MaxKeys == 2       \* keys generated per behaviour of SpecKeys, SpecPersist and SpecNew
FaultsMaxNonce == 2 \* nonces drawn per behaviour of SpecFaults
RaceMaxNonce == 2  \* nonces drawn per behaviour of SpecRace
NapiMaxNonce == 2  \* nonces drawn per behaviour of SpecNapi

Instances == {1, 2}

----------------------------------------------------------------------------
(* Strings *)

Colon == ":"

sEmpty == << >>
sA == <<"a">>
sB == <<"b">>
sC == <<"c">>
sX == <<"x">>
sV == <<"v">>
sW == <<"w">>
sAB == <<"a", ":", "b">>          \* "a:b"
sBC == <<"b", ":", "c">>          \* "b:c"
sCV == <<"c", ":", "v">>          \* "c:v"
sCC == <<":", ":">>               \* "::"
sU == <<"é">>                     \* a non-ASCII character

NoColon(s) == \A i \in 1..Len(s) : s[i] # Colon

\* Identities and values the calls of Spec are made with: three colon-free
\* identities that share a service or an account, and one whose service
\* holds the delimiter.
Identities == {<<sA, sB>>, <<sA, sC>>, <<sX, sB>>, <<sAB, sC>>}
Values == {sV, sW}

\* Identities and values the calls of SpecCodec are made with.
CodecIdentities ==
    {<<sEmpty, sEmpty>>, <<sA, sB>>, <<sAB, sC>>, <<sA, sBC>>}
CodecValues == {sEmpty, sCV, sCC, sU}

\* Identities and values the calls of SpecKeys are made with.
KeysIdentities == {<<sA, sB>>, <<sA, sC>>}
KeysValues == {sV}
FaultsIdentities == {<<sA, sB>>, <<sA, sC>>}
FaultsValues == {sV, sW}

AllIdentities == Identities \cup CodecIdentities \cup KeysIdentities

\* Mutant of splitn: str::split(':'), which splits at every delimiter.
RECURSIVE split_every(_, _)
split_every(n, s) ==
    LET colons == {i \in 1..Len(s) : s[i] = Colon} IN
    IF colons = {}
    THEN <<s>>
    ELSE LET i == CHOOSE j \in colons : \A k \in colons : j <= k
         IN  <<SubSeq(s, 1, i - 1)>> \o split_every(n, SubSeq(s, i + 1, Len(s)))

\* Mutant of splitn: str::rsplitn(n, ':') put back in order, which splits
\* at the last delimiters and leaves the rest in the first part.
RECURSIVE splitn_from_right(_, _)
splitn_from_right(n, s) ==
    LET colons == {i \in 1..Len(s) : s[i] = Colon} IN
    IF n <= 1 \/ colons = {}
    THEN <<s>>
    ELSE LET i == CHOOSE j \in colons : \A k \in colons : j >= k
         IN  splitn_from_right(n - 1, SubSeq(s, 1, i - 1)) \o <<SubSeq(s, i + 1, Len(s))>>

\* str::splitn(n, ':'): at most n parts, the last one holding the rest.
RECURSIVE splitn(_, _)
splitn(n, s) ==
    LET colons == {i \in 1..Len(s) : s[i] = Colon} IN
    IF n <= 1 \/ colons = {}
    THEN <<s>>
    ELSE LET i == CHOOSE j \in colons : \A k \in colons : j <= k
         IN  <<SubSeq(s, 1, i - 1)>> \o splitn(n - 1, SubSeq(s, i + 1, Len(s)))

\* Mutant of format: the second delimiter is left out.
format_one_delimiter(service, account, value) ==
    service \o <<Colon>> \o account \o value

\* format!("{}:{}:{}", service, account, value)
format(service, account, value) ==
    service \o <<Colon>> \o account \o <<Colon>> \o value

----------------------------------------------------------------------------
(* Results *)

Ok(v) == [tag |-> "Ok", val |-> v]
KeyNotFound(service, account) ==
    [tag |-> "KeyNotFound", val |-> service \o <<Colon>> \o account]
Unit == << >>
Io == [tag |-> "Io", val |-> << >>]
Serialization == [tag |-> "Serialization", val |-> << >>]

\* The two values of bool.
True == <<"true">>
False == <<"false">>

\* The filesystem operation the environment makes fail during a call:
\* none, the read of the data file by the call's first load_data, the
\* read by the load_data inside derive_index, and in save_data (or in
\* get_or_create_key) create_dir_all, fs::write before it truncated the
\* file, fs::write after it truncated the file, and fs::metadata or
\* fs::set_permissions.
NoFault == "none"
LoadFaults == {"load"}
SaveFaults == {"mkdir", "open", "write", "chmod"}
Faults == {NoFault, "reload"} \cup LoadFaults \cup SaveFaults

----------------------------------------------------------------------------
(* Codec: Aes256Gcm *)

encrypt(key, nonce, plaintext) == [k |-> key, n |-> nonce, pt |-> plaintext]

\* Mutant of decrypt_ok: the key is not checked.
decrypt_ok_any_key(key, nonce, ciphertext) == ciphertext.n = nonce

\* cipher.decrypt(nonce, ciphertext): authentication fails unless the
\* ciphertext was sealed under this key and this nonce.
decrypt_ok(key, nonce, ciphertext) ==
    ciphertext.k = key /\ ciphertext.n = nonce

EncryptedEntry(nonce, ciphertext) == [nonce |-> nonce, ciphertext |-> ciphertext]

\* Mutant of entry_matches: the account is not compared.
entry_matches_service_only(key, entry, service, account) ==
    /\ decrypt_ok(key, entry.nonce, entry.ciphertext)
    /\ LET parts == splitn(3, entry.ciphertext.pt) IN
       /\ Len(parts) = 3
       /\ parts[1] = service

\* The test both scans apply to one entry: it decrypts, and its plaintext
\* splits in three parts of which the first two are service and account.
entry_matches(key, entry, service, account) ==
    /\ decrypt_ok(key, entry.nonce, entry.ciphertext)
    /\ LET parts == splitn(3, entry.ciphertext.pt) IN
       /\ Len(parts) = 3
       /\ parts[1] = service
       /\ parts[2] = account

----------------------------------------------------------------------------
(* Store File Manager *)

\* Permission bits.
NoMode == "none"
CreateMode == "0644"   \* a file fs::write creates, under the usual umask
OwnerOnly == "0600"
Modes == {CreateMode, OwnerOnly}

\* Content of the data file: a document, text that is not a document
\* (empty or cut short included), or bytes that are not UTF-8.
Document == "document"
Malformed == "malformed"
NotUtf8 == "notutf8"

\* load_data: an absent file is the empty document.
load_data(f) == IF ~f.exists THEN << >> ELSE f.entries

\* load_data with its failures: read_to_string fails on a read error and
\* on bytes that are not UTF-8, serde_json::from_str on anything that is
\* not a document.
load_data_result(f, kind, readFails) ==
    IF ~f.exists THEN Ok(<< >>)
    ELSE IF readFails \/ kind = NotUtf8 THEN Io
    ELSE IF kind # Document THEN Serialization
    ELSE Ok(f.entries)

\* Mutant of save_data: the file is created but the entries are not
\* written.
save_data_empty(entries) == [exists |-> TRUE, entries |-> << >>]

\* save_data: the whole document overwrites the file.
save_data(entries) == [exists |-> TRUE, entries |-> entries]

\* The mode of the file once fs::write has opened it.
written_mode(f, mode) == IF f.exists THEN mode ELSE CreateMode

\* Mutant of save_data_result: the permissions are not re-applied.
save_data_no_chmod(f, kind, mode, entries, fault) ==
    IF fault \in {"mkdir", "open"}
    THEN [file |-> f, kind |-> kind, mode |-> mode, result |-> Io]
    ELSE IF fault = "write"
    THEN [file |-> save_data(<< >>), kind |-> Malformed,
          mode |-> written_mode(f, mode), result |-> Io]
    ELSE [file |-> save_data(entries), kind |-> Document,
          mode |-> written_mode(f, mode),
          result |-> IF fault = "chmod" THEN Io ELSE Ok(Unit)]

\* save_data with its failures: what it leaves of the data file and what
\* it returns.  fs::write truncates the file and then writes; a failure
\* after the truncation leaves text that is not a document; a failure of
\* fs::metadata or fs::set_permissions leaves the document written.
save_data_result(f, kind, mode, entries, fault) ==
    IF fault \in {"mkdir", "open"}
    THEN [file |-> f, kind |-> kind, mode |-> mode, result |-> Io]
    ELSE IF fault = "write"
    THEN [file |-> save_data(<< >>), kind |-> Malformed,
          mode |-> written_mode(f, mode), result |-> Io]
    ELSE IF fault = "chmod"
    THEN [file |-> save_data(entries), kind |-> Document,
          mode |-> written_mode(f, mode), result |-> Io]
    ELSE [file |-> save_data(entries), kind |-> Document,
          mode |-> OwnerOnly, result |-> Ok(Unit)]

\* The bytes of the data file, as characters.  A byte of a nonce or of a
\* ciphertext is written as a decimal number; the model does not determine
\* its digits and writes "#" for it.  The run of spaces that indents a
\* line is written as one space.
NONCE_SIZE == 12
TAG_SIZE == 16

kEntries == <<"e", "n", "t", "r", "i", "e", "s">>
kNonce == <<"n", "o", "n", "c", "e">>
kCiphertext == <<"c", "i", "p", "h", "e", "r", "t", "e", "x", "t">>

\* "name": 
json_key(name) == <<" ", "\"">> \o name \o <<"\"", ":", " ">>

\* The numbers of an array of n bytes, one to a line.
RECURSIVE json_numbers(_)
json_numbers(n) ==
    IF n = 0
    THEN << >>
    ELSE <<" ", "#">> \o (IF n > 1 THEN <<",">> ELSE << >>) \o <<"\n">>
         \o json_numbers(n - 1)

json_bytes(n) ==
    IF n = 0 THEN <<"[", "]">> ELSE <<"[", "\n">> \o json_numbers(n) \o <<" ", "]">>

\* Aes256Gcm: the ciphertext is as long as the plaintext, followed by the
\* tag.
ciphertext_len(ciphertext) == Len(ciphertext.pt) + TAG_SIZE

\* Mutant of json_entry: the ciphertext is written as the string of the
\* characters that were sealed.
json_entry_in_clear(entry) ==
    <<" ", "{", "\n">>
    \o json_key(kNonce) \o json_bytes(NONCE_SIZE) \o <<",", "\n">>
    \o json_key(kCiphertext) \o <<"\"">> \o entry.ciphertext.pt \o <<"\"", "\n">>
    \o <<" ", "}">>

\* #[derive(Serialize)] struct EncryptedEntry
json_entry(entry) ==
    <<" ", "{", "\n">>
    \o json_key(kNonce) \o json_bytes(NONCE_SIZE) \o <<",", "\n">>
    \o json_key(kCiphertext) \o json_bytes(ciphertext_len(entry.ciphertext)) \o <<"\n">>
    \o <<" ", "}">>

RECURSIVE json_entries(_)
json_entries(entries) ==
    IF entries = << >>
    THEN << >>
    ELSE json_entry(Head(entries))
         \o (IF Len(entries) > 1 THEN <<",">> ELSE << >>) \o <<"\n">>
         \o json_entries(Tail(entries))

\* serde_json::to_string_pretty(data)
to_string_pretty(entries) ==
    <<"{", "\n">> \o json_key(kEntries)
    \o (IF entries = << >>
        THEN <<"[", "]">>
        ELSE <<"[", "\n">> \o json_entries(entries) \o <<" ", "]">>)
    \o <<"\n", "}">>

\* The bytes of a data file that save_data wrote.
raw_bytes(f) == IF f.exists THEN to_string_pretty(f.entries) ELSE << >>

----------------------------------------------------------------------------
(* Credential Store *)

\* Mutant of derive_index: it never finds an entry.
derive_index_none(f, key, service, account) == 0

\* Mutant of derive_index: the scan ends at the first entry that does not
\* decrypt.
derive_index_stops(f, key, service, account) ==
    LET data == load_data(f)
        bad == {i \in 1..Len(data) : ~decrypt_ok(key, data[i].nonce, data[i].ciphertext)}
        hits == {i \in 1..Len(data) :
                    /\ entry_matches(key, data[i], service, account)
                    /\ \A b \in bad : i < b}
    IN  IF hits = {} THEN 0 ELSE CHOOSE i \in hits : \A j \in hits : i <= j

\* Mutant of derive_index: the highest index whose entry matches.
derive_index_last(f, key, service, account) ==
    LET data == load_data(f)
        hits == {i \in 1..Len(data) : entry_matches(key, data[i], service, account)}
    IN  IF hits = {} THEN 0 ELSE CHOOSE i \in hits : \A j \in hits : i >= j

\* derive_index: the lowest index whose entry matches, 0 for None.
derive_index(f, key, service, account) ==
    LET data == load_data(f)
        hits == {i \in 1..Len(data) : entry_matches(key, data[i], service, account)}
    IN  IF hits = {} THEN 0 ELSE CHOOSE i \in hits : \A j \in hits : i <= j

\* Mutant of get_password_result: the value of the first entry that
\* decrypts and splits in three parts, whatever its service and account.
get_password_result_first(f, key, service, account) ==
    LET data == load_data(f)
        hits == {i \in 1..Len(data) :
                    /\ decrypt_ok(key, data[i].nonce, data[i].ciphertext)
                    /\ Len(splitn(3, data[i].ciphertext.pt)) = 3}
    IN  IF hits = {}
        THEN KeyNotFound(service, account)
        ELSE LET i == CHOOSE j \in hits : \A k \in hits : j <= k
             IN  Ok(splitn(3, data[i].ciphertext.pt)[3])

\* get_password: the third part of the first matching entry.
get_password_result(f, key, service, account) ==
    LET data == load_data(f)
        hits == {i \in 1..Len(data) : entry_matches(key, data[i], service, account)}
    IN  IF hits = {}
        THEN KeyNotFound(service, account)
        ELSE LET i == CHOOSE j \in hits : \A k \in hits : j <= k
             IN  Ok(splitn(3, data[i].ciphertext.pt)[3])

\* Mutant of set_entries: the new entry is always pushed.
set_entries_append(f, key, nonce, service, account, value) ==
    Append(load_data(f),
           EncryptedEntry(nonce, encrypt(key, nonce, format(service, account, value))))

\* Mutant of set_entries: the entries that do not decrypt under the key
\* are left out of the document that is saved.
set_entries_compacts(f, key, nonce, service, account, value) ==
    LET opens(e) == decrypt_ok(key, e.nonce, e.ciphertext)
        data == SelectSeq(load_data(f), opens)
        encrypted_entry ==
            EncryptedEntry(nonce, encrypt(key, nonce, format(service, account, value)))
        hits == {i \in 1..Len(data) : entry_matches(key, data[i], service, account)}
    IN  IF hits # {}
        THEN [data EXCEPT ![CHOOSE i \in hits : \A j \in hits : i <= j] = encrypted_entry]
        ELSE Append(data, encrypted_entry)

\* Mutant of set_entries: an entry that replaces another is sealed with
\* the nonce of the entry it replaces.
set_entries_keeps_nonce(f, key, nonce, service, account, value) ==
    LET data == load_data(f)
        plaintext == format(service, account, value)
        index == derive_index(f, key, service, account)
    IN  IF index # 0
        THEN [data EXCEPT ![index] =
                EncryptedEntry(data[index].nonce,
                               encrypt(key, data[index].nonce, plaintext))]
        ELSE Append(data, EncryptedEntry(nonce, encrypt(key, nonce, plaintext)))

\* The document set_password saves: the new entry replaces the entry at
\* the derived index, or is pushed when there is none.
set_entries(f, key, nonce, service, account, value) ==
    LET data == load_data(f)
        plaintext == format(service, account, value)
        encrypted_entry == EncryptedEntry(nonce, encrypt(key, nonce, plaintext))
        index == derive_index(f, key, service, account)
    IN  IF index # 0
        THEN [data EXCEPT ![index] = encrypted_entry]
        ELSE Append(data, encrypted_entry)

\* Mutant of remove: Vec::pop, which drops the last entry.
remove_last(data, index) == SubSeq(data, 1, Len(data) - 1)

\* Mutant of remove: Vec::swap_remove, which moves the last entry into
\* the hole.
swap_remove(data, index) ==
    IF index = Len(data)
    THEN SubSeq(data, 1, Len(data) - 1)
    ELSE [SubSeq(data, 1, Len(data) - 1) EXCEPT ![index] = data[Len(data)]]

\* Vec::remove(index)
remove(data, index) ==
    SubSeq(data, 1, index - 1) \o SubSeq(data, index + 1, Len(data))

Call(op, i, key, service, account, value, result, fault) ==
    [op |-> op, inst |-> i, key |-> key, service |-> service,
     account |-> account, value |-> value, result |-> result, fault |-> fault]

NoCall == Call("none", 0, 0, sEmpty, sEmpty, sEmpty, Ok(Unit), NoFault)

\* The call that completed last, and the one before it.
last == hist[Len(hist)]
prev == IF Len(hist) >= 2 THEN hist[Len(hist) - 1] ELSE NoCall

\* A call completes: it enters the history and the oldest one leaves.
completes(c) == hist' = Append(Tail(hist), c)

\* The history of an identity, as the callers know it.
NeverSet == [st |-> "never", val |-> sEmpty]
Live(v) == [st |-> "live", val |-> v]
Deleted == [st |-> "deleted", val |-> sEmpty]

\* No call of any instance is in progress (calls are made one at a time).
Idle ==
    [pc |-> "idle", op |-> "none", service |-> sEmpty, account |-> sEmpty,
     value |-> sEmpty, nonce |-> 0, data |-> << >>, index |-> 0,
     missed |-> {}, key |-> 0]

\* The faults a call can meet once its first load_data has returned a
\* document: derive_index reads the file again only when it exists.
AfterLoad(f, more) ==
    {NoFault} \cup more \cup (IF f.exists THEN {"reload"} ELSE {})

\* set_password as one step (no other call runs during it).
set_password(i, service, account, value, fault) ==
    /\ store[i] # 0
    /\ proc[i].pc = "idle"
    /\ LET loaded == load_data_result(file, fkind, fault = "load") IN
       IF loaded.tag # "Ok"
       THEN /\ fault \in {NoFault} \cup LoadFaults
            /\ completes(Call("set", i, store[i], service, account, value,
                              loaded, fault))
            /\ UNCHANGED <<file, fkind, fmode, nonceCtr, shadow>>
       ELSE /\ fault \in AfterLoad(file, SaveFaults)
            /\ nonceCtr' = nonceCtr + 1
            /\ LET nonce == nonceCtr + 1
                   pushed == Append(loaded.val,
                                    EncryptedEntry(nonce,
                                        encrypt(store[i], nonce,
                                                format(service, account, value))))
                   \* derive_index answers None when its load_data fails
                   entries == IF fault = "reload"
                              THEN pushed
                              ELSE set_entries(file, store[i], nonce,
                                               service, account, value)
                   saved == save_data_result(file, fkind, fmode, entries, fault)
               IN  /\ file' = saved.file
                   /\ fkind' = saved.kind
                   /\ fmode' = saved.mode
                   /\ completes(Call("set", i, store[i], service, account, value,
                                     saved.result, fault))
                   /\ shadow' = IF saved.result.tag = "Ok"
                                THEN [shadow EXCEPT ![<<service, account>>] = Live(value)]
                                ELSE shadow
    /\ UNCHANGED <<keyFile, store, keyCtr, keyMode, proc, napi>>

\* get_password as one step.
get_password(i, service, account, fault) ==
    /\ store[i] # 0
    /\ proc[i].pc = "idle"
    /\ LET loaded == load_data_result(file, fkind, fault = "load") IN
       IF loaded.tag # "Ok"
       THEN /\ fault \in {NoFault} \cup LoadFaults
            /\ completes(Call("get", i, store[i], service, account, sEmpty,
                              loaded, fault))
       ELSE /\ fault = NoFault
            /\ completes(Call("get", i, store[i], service, account, sEmpty,
                              get_password_result(file, store[i], service, account),
                              fault))
    /\ UNCHANGED <<file, keyFile, store, keyCtr, nonceCtr, shadow,
                   fkind, fmode, keyMode, proc, napi>>

\* Mutant of delete_password: deleting what is not there succeeds.
delete_password_idempotent(i, service, account, fault) ==
    /\ store[i] # 0
    /\ proc[i].pc = "idle"
    /\ fault = NoFault
    /\ fkind = Document
    /\ LET data == load_data(file)
           index == derive_index(file, store[i], service, account)
       IN  IF index # 0
           THEN /\ file' = save_data(remove(data, index))
                /\ fmode' = OwnerOnly
                /\ shadow' = [shadow EXCEPT ![<<service, account>>] = Deleted]
           ELSE /\ file' = file
                /\ fmode' = fmode
                /\ shadow' = shadow
    /\ completes(Call("delete", i, store[i], service, account, sEmpty, Ok(Unit),
                      fault))
    /\ UNCHANGED <<keyFile, store, keyCtr, nonceCtr, fkind, keyMode, proc, napi>>

\* Mutant of delete_password: the document is saved before KeyNotFound
\* is returned.
delete_password_saves(i, service, account, fault) ==
    /\ store[i] # 0
    /\ proc[i].pc = "idle"
    /\ fault = NoFault
    /\ fkind = Document
    /\ LET data == load_data(file)
           index == derive_index(file, store[i], service, account)
           saved == save_data_result(file, fkind, fmode,
                        IF index # 0 THEN remove(data, index) ELSE data, fault)
       IN  /\ file' = saved.file
           /\ fkind' = saved.kind
           /\ fmode' = saved.mode
           /\ completes(Call("delete", i, store[i], service, account, sEmpty,
                             IF index # 0 THEN saved.result
                             ELSE KeyNotFound(service, account), fault))
           /\ shadow' = IF index # 0
                        THEN [shadow EXCEPT ![<<service, account>>] = Deleted]
                        ELSE shadow
    /\ UNCHANGED <<keyFile, store, keyCtr, nonceCtr, keyMode, proc, napi>>

\* delete_password as one step.
delete_password(i, service, account, fault) ==
    /\ store[i] # 0
    /\ proc[i].pc = "idle"
    /\ LET loaded == load_data_result(file, fkind, fault = "load") IN
       IF loaded.tag # "Ok"
       THEN /\ fault \in {NoFault} \cup LoadFaults
            /\ completes(Call("delete", i, store[i], service, account, sEmpty,
                              loaded, fault))
            /\ UNCHANGED <<file, fkind, fmode, shadow>>
       ELSE LET \* derive_index answers None when its load_data fails
                index == IF fault = "reload"
                         THEN 0
                         ELSE derive_index(file, store[i], service, account)
            IN  IF index # 0
                THEN /\ fault \in {NoFault} \cup SaveFaults
                     /\ LET saved == save_data_result(file, fkind, fmode,
                                                      remove(loaded.val, index), fault)
                        IN  /\ file' = saved.file
                            /\ fkind' = saved.kind
                            /\ fmode' = saved.mode
                            /\ completes(Call("delete", i, store[i], service, account,
                                              sEmpty, saved.result, fault))
                            /\ shadow' = IF saved.result.tag = "Ok"
                                         THEN [shadow EXCEPT
                                                 ![<<service, account>>] = Deleted]
                                         ELSE shadow
                ELSE /\ fault \in AfterLoad(file, {})
                     /\ completes(Call("delete", i, store[i], service, account,
                                       sEmpty, KeyNotFound(service, account), fault))
                     /\ UNCHANGED <<file, fkind, fmode, shadow>>
    /\ UNCHANGED <<keyFile, store, keyCtr, nonceCtr, keyMode, proc, napi>>

\* Mutant of is_available: the store is available when its data file
\* loads.
is_available_probes(i) ==
    /\ store[i] # 0
    /\ proc[i].pc = "idle"
    /\ completes(Call("is_available", i, store[i], sEmpty, sEmpty, sEmpty,
                      Ok(IF load_data_result(file, fkind, FALSE).tag = "Ok"
                         THEN True ELSE False),
                      NoFault))
    /\ UNCHANGED <<file, keyFile, store, keyCtr, nonceCtr, shadow,
                   fkind, fmode, keyMode, proc, napi>>

\* FallbackKeystore::is_available
is_available(i) ==
    /\ store[i] # 0
    /\ proc[i].pc = "idle"
    /\ completes(Call("is_available", i, store[i], sEmpty, sEmpty, sEmpty,
                      Ok(True), NoFault))
    /\ UNCHANGED <<file, keyFile, store, keyCtr, nonceCtr, shadow,
                   fkind, fmode, keyMode, proc, napi>>

----------------------------------------------------------------------------
(* Credential Store, calls of two instances interleaving *)

\* A call is in progress on instance i: between two of its filesystem
\* operations the other instance can run.  proc[i].pc is
\*   "idle"       no call in progress,
\*   "loaded"     the first load_data returned the document proc[i].data,
\*   "saving"     derive_index returned and data was changed; save_data
\*                is entered,
\*   "truncated"  fs::write has opened the file, which is now empty,
\*   "written"    fs::write has written the document.
\* proc[i].missed: the nonces of the records other calls wrote to the
\* file since this call's first load_data.

\* Mutant of mutated_data: the call changes the document that the load
\* inside derive_index returned.
mutated_data_reloaded(first, reloaded) ==
    IF reloaded.tag = "Ok" THEN reloaded.val ELSE first

\* The document a call changes and saves is the one its first load_data
\* returned (let mut data = self.load_data()?), whatever derive_index
\* loaded afterwards.
mutated_data(first, reloaded) == first

Panic == [tag |-> "Panic", val |-> << >>]

finish(i, result) ==
    /\ completes(Call(proc[i].op, i, store[i], proc[i].service, proc[i].account,
                      proc[i].value, result, NoFault))
    /\ proc' = [proc EXCEPT ![i] = Idle]

\* set_password or delete_password up to the return of its first
\* load_data; set_password then seals its entry under a fresh nonce.
begin(i, op, service, account, value) ==
    /\ store[i] # 0
    /\ proc[i].pc = "idle"
    /\ LET loaded == load_data_result(file, fkind, FALSE) IN
       IF loaded.tag # "Ok"
       THEN /\ completes(Call(op, i, store[i], service, account, value, loaded, NoFault))
            /\ UNCHANGED <<proc, nonceCtr>>
       ELSE /\ nonceCtr' = IF op = "set" THEN nonceCtr + 1 ELSE nonceCtr
            /\ proc' = [proc EXCEPT ![i] =
                          [pc |-> "loaded", op |-> op, service |-> service,
                           account |-> account, value |-> value,
                           nonce |-> IF op = "set" THEN nonceCtr + 1 ELSE 0,
                           data |-> loaded.val, index |-> 0, missed |-> {},
                           key |-> 0]]
            /\ UNCHANGED hist
    /\ UNCHANGED <<file, keyFile, store, keyCtr, shadow, fkind, fmode, keyMode, napi>>

\* get_password, whose only filesystem operation is its load_data.
read(i, service, account) ==
    /\ store[i] # 0
    /\ proc[i].pc = "idle"
    /\ LET loaded == load_data_result(file, fkind, FALSE) IN
       completes(Call("get", i, store[i], service, account, sEmpty,
                      IF loaded.tag # "Ok"
                      THEN loaded
                      ELSE get_password_result(file, store[i], service, account),
                      NoFault))
    /\ UNCHANGED <<file, keyFile, store, keyCtr, nonceCtr, shadow,
                   fkind, fmode, keyMode, proc, napi>>

\* derive_index loads the file again, and the call changes its data at
\* the index it got: data.entries[index] = entry and
\* data.entries.remove(index) panic on an index out of bounds.
derive(i) ==
    /\ proc[i].pc = "loaded"
    /\ LET p == proc[i]
           reloaded == load_data_result(file, fkind, FALSE)
           index == IF reloaded.tag = "Ok"
                    THEN derive_index(file, store[i], p.service, p.account)
                    ELSE 0
           data == mutated_data(p.data, reloaded)
           entry == EncryptedEntry(p.nonce,
                        encrypt(store[i], p.nonce,
                                format(p.service, p.account, p.value)))
       IN  IF index > Len(data)
           THEN finish(i, Panic)
           ELSE IF p.op = "delete" /\ index = 0
           THEN finish(i, KeyNotFound(p.service, p.account))
           ELSE /\ proc' = [proc EXCEPT ![i].pc = "saving",
                                        ![i].index = index,
                                        ![i].data =
                                           IF p.op = "delete" THEN remove(data, index)
                                           ELSE IF index # 0
                                           THEN [data EXCEPT ![index] = entry]
                                           ELSE Append(data, entry)]
                /\ UNCHANGED hist
    /\ UNCHANGED <<file, keyFile, store, keyCtr, nonceCtr, shadow,
                   fkind, fmode, keyMode, napi>>

\* save_data: fs::write opens the file, truncating it.
truncate(i) ==
    /\ proc[i].pc = "saving"
    /\ file' = save_data(<< >>)
    /\ fkind' = Malformed
    /\ fmode' = written_mode(file, fmode)
    /\ proc' = [proc EXCEPT ![i].pc = "truncated"]
    /\ UNCHANGED <<keyFile, store, keyCtr, nonceCtr, hist, shadow, keyMode, napi>>

\* save_data: fs::write writes the document from the start of the file.
\* When the other instance wrote since this call truncated, bytes of
\* that document can remain behind this one.
write(i) ==
    /\ proc[i].pc = "truncated"
    /\ \E kind \in IF fkind = Document THEN {Document, Malformed} ELSE {Document} :
          /\ fkind' = kind
          /\ file' = save_data(IF kind = Document THEN proc[i].data ELSE << >>)
    /\ proc' = [j \in Instances |->
                  IF j = i THEN [proc[j] EXCEPT !.pc = "written"]
                  ELSE IF proc[j].pc # "idle" /\ proc[i].op = "set"
                  THEN [proc[j] EXCEPT !.missed = @ \cup {proc[i].nonce}]
                  ELSE proc[j]]
    /\ UNCHANGED <<keyFile, store, keyCtr, nonceCtr, hist, shadow, fmode, keyMode, napi>>

\* save_data: the permissions are restricted and the call returns Ok.
restrict(i) ==
    /\ proc[i].pc = "written"
    /\ fmode' = OwnerOnly
    /\ finish(i, Ok(Unit))
    /\ shadow' = [shadow EXCEPT ![<<proc[i].service, proc[i].account>>] =
                     IF proc[i].op = "set" THEN Live(proc[i].value) ELSE Deleted]
    /\ UNCHANGED <<file, keyFile, store, keyCtr, nonceCtr, fkind, keyMode, napi>>

----------------------------------------------------------------------------
(* Key Manager *)

\* Mutant of get_or_create_key: a key is generated whatever the key file
\* holds.
get_or_create_key_fresh(kf, drawn) == drawn + 1

\* get_or_create_key: a key file of KEY_SIZE bytes is returned verbatim,
\* otherwise a key is generated and written over the key file.
get_or_create_key(kf, drawn) == IF kf # 0 THEN kf ELSE drawn + 1

\* The faults get_or_create_key can meet: none when it returns the key
\* file's bytes (a failed read makes it generate a key).
KeyFaults == {NoFault} \cup SaveFaults

\* Mutant of new: a failure to restrict the key file's permissions is
\* ignored.
new_ignores_chmod(i, fault) ==
    /\ keyFile # 0 \/ keyCtr < MaxKeys
    /\ LET key == get_or_create_key(keyFile, keyCtr)
           created == IF keyMode = NoMode THEN CreateMode ELSE keyMode
           ok == fault \in {NoFault, "chmod"}
       IN  IF keyFile # 0
           THEN /\ fault = NoFault
                /\ store' = [store EXCEPT ![i] = key]
                /\ completes(Call("new", i, key, sEmpty, sEmpty, sEmpty, Ok(Unit), fault))
                /\ UNCHANGED <<keyFile, keyCtr, keyMode>>
           ELSE /\ fault \in KeyFaults
                /\ keyCtr' = keyCtr + 1
                /\ keyFile' = IF ok THEN key ELSE 0
                /\ keyMode' = IF fault = NoFault THEN OwnerOnly
                              ELSE IF fault \in {"write", "chmod"} THEN created
                              ELSE keyMode
                /\ store' = IF ok THEN [store EXCEPT ![i] = key] ELSE store
                /\ completes(Call("new", i, IF ok THEN key ELSE 0,
                                  sEmpty, sEmpty, sEmpty,
                                  IF ok THEN Ok(Unit) ELSE Io, fault))
    /\ UNCHANGED <<file, nonceCtr, shadow, fkind, fmode, proc>>

\* Mutant of new: the generated key is returned and not written.
new_keeps_key_file(i, fault) ==
    /\ keyFile # 0 \/ keyCtr < MaxKeys
    /\ LET key == get_or_create_key(keyFile, keyCtr) IN
       IF keyFile # 0
       THEN /\ fault = NoFault
            /\ store' = [store EXCEPT ![i] = key]
            /\ completes(Call("new", i, key, sEmpty, sEmpty, sEmpty, Ok(Unit), fault))
            /\ UNCHANGED <<keyFile, keyCtr, keyMode>>
       ELSE /\ fault \in KeyFaults
            /\ keyCtr' = keyCtr + 1
            /\ store' = IF fault = NoFault THEN [store EXCEPT ![i] = key] ELSE store
            /\ completes(Call("new", i, IF fault = NoFault THEN key ELSE 0,
                              sEmpty, sEmpty, sEmpty,
                              IF fault = NoFault THEN Ok(Unit) ELSE Io, fault))
            /\ UNCHANGED <<keyFile, keyMode>>
    /\ UNCHANGED <<file, nonceCtr, shadow, fkind, fmode, proc>>

\* FallbackKeystore::new (it leaves what holds the constructed instance
\* to its caller).  The key is generated before the directory is
\* created; a failure of create_dir_all or of fs::write before it
\* truncated leaves the key file as it was, a failure after the
\* truncation leaves it with fewer than KEY_SIZE bytes, a failure of
\* fs::metadata or fs::set_permissions leaves the key written.
new(i, fault) ==
    /\ keyFile # 0 \/ keyCtr < MaxKeys
    /\ LET key == get_or_create_key(keyFile, keyCtr)
           created == IF keyMode = NoMode THEN CreateMode ELSE keyMode
       IN  IF keyFile # 0
           THEN /\ fault = NoFault
                /\ store' = [store EXCEPT ![i] = key]
                /\ completes(Call("new", i, key, sEmpty, sEmpty, sEmpty, Ok(Unit), fault))
                /\ UNCHANGED <<keyFile, keyCtr, keyMode>>
           ELSE /\ fault \in KeyFaults
                /\ keyCtr' = keyCtr + 1
                /\ keyFile' = IF fault \in {NoFault, "chmod"} THEN key ELSE 0
                /\ keyMode' = IF fault = NoFault THEN OwnerOnly
                              ELSE IF fault \in {"write", "chmod"} THEN created
                              ELSE keyMode
                /\ store' = IF fault = NoFault THEN [store EXCEPT ![i] = key] ELSE store
                /\ completes(Call("new", i, IF fault = NoFault THEN key ELSE 0,
                                  sEmpty, sEmpty, sEmpty,
                                  IF fault = NoFault THEN Ok(Unit) ELSE Io, fault))
    /\ UNCHANGED <<file, nonceCtr, shadow, fkind, fmode, proc>>

\* FallbackKeystore::new of two instances interleaving: between two
\* filesystem operations of get_or_create_key the other construction can
\* run.  proc[i].pc is "generated" once fs::read has returned no key of
\* KEY_SIZE bytes and the key proc[i].key was drawn, and "key_written"
\* once fs::write has written it.

\* fs::read(&key_file): the key file's KEY_SIZE bytes are returned as the
\* key, otherwise a key is generated.
new_read(i) ==
    /\ proc[i].pc = "idle"
    /\ IF keyFile # 0
       THEN /\ store' = [store EXCEPT ![i] = keyFile]
            /\ completes(Call("new", i, keyFile, sEmpty, sEmpty, sEmpty,
                              Ok(Unit), NoFault))
            /\ UNCHANGED <<keyCtr, proc>>
       ELSE /\ keyCtr < MaxKeys
            /\ keyCtr' = keyCtr + 1
            /\ proc' = [proc EXCEPT ![i] =
                          [Idle EXCEPT !.pc = "generated", !.op = "new",
                                       !.key = keyCtr + 1]]
            /\ UNCHANGED <<store, hist>>
    /\ UNCHANGED <<file, keyFile, nonceCtr, shadow, fkind, fmode, keyMode, napi>>

\* fs::write(&key_file, key.as_slice())
new_write(i) ==
    /\ proc[i].pc = "generated"
    /\ keyFile' = proc[i].key
    /\ keyMode' = IF keyMode = NoMode THEN CreateMode ELSE keyMode
    /\ proc' = [proc EXCEPT ![i].pc = "key_written"]
    /\ UNCHANGED <<file, store, keyCtr, nonceCtr, hist, shadow, fkind, fmode, napi>>

\* fs::set_permissions(&key_file, perms), and the return of the key to
\* new, which constructs the instance with it.
new_restrict(i) ==
    /\ proc[i].pc = "key_written"
    /\ keyMode' = OwnerOnly
    /\ store' = [store EXCEPT ![i] = proc[i].key]
    /\ completes(Call("new", i, proc[i].key, sEmpty, sEmpty, sEmpty,
                      Ok(Unit), NoFault))
    /\ proc' = [proc EXCEPT ![i] = Idle]
    /\ UNCHANGED <<file, keyFile, keyCtr, nonceCtr, shadow, fkind, fmode, napi>>

----------------------------------------------------------------------------
(* Environment *)

\* The key file is removed.
KeyFileLost ==
    /\ keyFile # 0
    /\ keyFile' = 0
    /\ keyMode' = NoMode
    /\ UNCHANGED <<file, store, keyCtr, nonceCtr, hist, shadow,
                   fkind, fmode, proc, napi>>

\* Bytes of one stored ciphertext are changed on disk: it no longer
\* authenticates under any key.  The history describes calls made on the
\* file as the store left it, so it is cleared.
Corrupt ==
    /\ file.exists
    /\ \E j \in 1..Len(file.entries) :
          /\ file.entries[j].ciphertext.k # 0
          /\ file' = [file EXCEPT !.entries[j].ciphertext.k = 0]
    /\ hist' = [j \in 1..Len(hist) |-> NoCall]
    /\ UNCHANGED <<keyFile, store, keyCtr, nonceCtr, shadow,
                   fkind, fmode, keyMode, proc, napi>>

\* The data file is replaced by content that is not a document.
Garble ==
    /\ fkind = Document
    /\ \E kind \in {Malformed, NotUtf8} :
          /\ file' = save_data(<< >>)
          /\ fkind' = kind
          /\ fmode' = written_mode(file, fmode)
    /\ UNCHANGED <<keyFile, store, keyCtr, nonceCtr, hist, shadow,
                   keyMode, proc, napi>>

\* The permissions of the data file are changed.
Chmod ==
    /\ file.exists
    /\ \E mode \in Modes \ {fmode} : fmode' = mode
    /\ UNCHANGED <<file, keyFile, store, keyCtr, nonceCtr, hist, shadow,
                   fkind, keyMode, proc, napi>>

\* The selection layer before any NapiKeystore is constructed: backend
\* is what NapiKeystore.inner holds, available is what the Secret Service
\* answers, secrets the credentials it holds.
NoNapi == [backend |-> "none", available |-> FALSE, secrets |-> {}]

\* What the specifications of one-at-a-time calls on the fallback store
\* leave alone.
Quiet ==
    /\ fkind = Document
    /\ proc = [i \in Instances |-> Idle]
    /\ napi = NoNapi

----------------------------------------------------------------------------
(* Selection layer: NapiKeystore on Linux *)

Platform == [tag |-> "Platform", val |-> << >>]

\* The instance of the fallback store a NapiKeystore holds, and the
\* marker of calls served by the native adapter.
NapiInstance == 1
Native == 0

\* LinuxKeystore::is_available: the probe entry is read; Ok and NoEntry
\* mean available.
linux_is_available(n) == n.available

\* Mutant of select_backend: the fallback store is never chosen.
select_backend_native(available) == "linux"

\* NapiKeystore::new: the native adapter when it is available, the
\* fallback store otherwise.
select_backend(available) == IF available THEN "linux" ELSE "fallback"

\* The Secret Service starts or stops answering.
SecretService ==
    /\ napi' = [napi EXCEPT !.available = ~napi.available]
    /\ UNCHANGED <<file, keyFile, store, keyCtr, nonceCtr, hist, shadow,
                   fkind, fmode, keyMode, proc>>

fallback_untouched ==
    UNCHANGED <<file, keyFile, store, keyCtr, nonceCtr, shadow,
                fkind, fmode, keyMode, proc>>

\* NapiKeystore::new
napi_new(fault) ==
    /\ napi.backend = "none"
    /\ LET backend == select_backend(linux_is_available(napi)) IN
       IF backend = "linux"
       THEN /\ fault = NoFault
            /\ napi' = [napi EXCEPT !.backend = backend]
            /\ completes(Call("new", Native, 0, sEmpty, sEmpty, sEmpty, Ok(Unit), fault))
            /\ fallback_untouched
       ELSE /\ new(NapiInstance, fault)
            /\ napi' = [napi EXCEPT !.backend =
                          IF fault = NoFault THEN backend ELSE "none"]

\* The credential the native adapter holds for an identity.
native_entries(n, service, account) ==
    {e \in n.secrets : e[1] = service /\ e[2] = account}

native_call(op, service, account, value, result) ==
    /\ completes(Call(op, Native, 0, service, account, value, result, NoFault))
    /\ fallback_untouched

\* NapiKeystore::set_password: self.inner.set_password
napi_set_password(service, account, value) ==
    IF napi.backend = "linux"
    THEN /\ napi' = IF napi.available
                    THEN [napi EXCEPT !.secrets =
                            (@ \ native_entries(napi, service, account))
                              \cup {<<service, account, value>>}]
                    ELSE napi
         /\ native_call("set", service, account, value,
                        IF napi.available THEN Ok(Unit) ELSE Platform)
    ELSE /\ napi.backend = "fallback"
         /\ set_password(NapiInstance, service, account, value, NoFault)

\* NapiKeystore::get_password: self.inner.get_password
napi_get_password(service, account) ==
    IF napi.backend = "linux"
    THEN /\ napi' = napi
         /\ native_call("get", service, account, sEmpty,
                IF ~napi.available THEN Platform
                ELSE IF native_entries(napi, service, account) = {}
                THEN KeyNotFound(service, account)
                ELSE Ok((CHOOSE e \in native_entries(napi, service, account) : TRUE)[3]))
    ELSE /\ napi.backend = "fallback"
         /\ get_password(NapiInstance, service, account, NoFault)

\* NapiKeystore::delete_password: self.inner.delete_password
napi_delete_password(service, account) ==
    IF napi.backend = "linux"
    THEN /\ napi' = IF napi.available
                    THEN [napi EXCEPT !.secrets = @ \ native_entries(napi, service, account)]
                    ELSE napi
         /\ native_call("delete", service, account, sEmpty,
                IF ~napi.available THEN Platform
                ELSE IF native_entries(napi, service, account) = {}
                THEN KeyNotFound(service, account)
                ELSE Ok(Unit))
    ELSE /\ napi.backend = "fallback"
         /\ delete_password(NapiInstance, service, account, NoFault)

\* NapiKeystore::is_available: self.inner.is_available, which is true
\* for the fallback store.
napi_is_available ==
    /\ napi.backend # "none"
    /\ napi' = napi
    /\ completes(Call("is_available",
                      IF napi.backend = "linux" THEN Native ELSE NapiInstance,
                      IF napi.backend = "linux" THEN 0 ELSE store[NapiInstance],
                      sEmpty, sEmpty, sEmpty,
                      Ok(IF napi.backend = "linux"
                         THEN (IF linux_is_available(napi) THEN True ELSE False)
                         ELSE True),
                      NoFault))
    /\ fallback_untouched

----------------------------------------------------------------------------
(* Error taxonomy at the boundary *)

\* The reasons an error carries.
ErrorTexts == {sEmpty, sA, sAB}

PlatformNotSupported == [tag |-> "PlatformNotSupported", val |-> << >>]

\* enum KeystoreError
KeystoreErrors ==
    {PlatformNotSupported} \cup
    {[tag |-> t, val |-> s] :
        t \in {"KeyNotFound", "AccessDenied", "Io", "Serialization", "Platform"},
        s \in ErrorTexts}

\* The Display of a KeystoreError (#[error("...")]).
to_string(err) ==
    CASE err.tag = "PlatformNotSupported" -> <<"Platform not supported">>
      [] err.tag = "KeyNotFound" -> <<"Key not found: ">> \o err.val
      [] err.tag = "AccessDenied" -> <<"Access denied: ">> \o err.val
      [] err.tag = "Io" -> <<"IO error: ">> \o err.val
      [] err.tag = "Serialization" -> <<"Serialization error: ">> \o err.val
      [] err.tag = "Platform" -> <<"Platform error: ">> \o err.val

\* JsKeystoreError::error_code
error_code(err) ==
    CASE err.tag = "PlatformNotSupported" -> "ERR_PLATFORM_NOT_SUPPORTED"
      [] err.tag = "KeyNotFound" -> "ERR_KEY_NOT_FOUND"
      [] err.tag = "AccessDenied" -> "ERR_ACCESS_DENIED"
      [] err.tag = "Io" -> "ERR_IO"
      [] err.tag = "Serialization" -> "ERR_SERIALIZATION"
      [] err.tag = "Platform" -> "ERR_PLATFORM"

\* impl From<KeystoreError> for NapiKeystoreError
napi_keystore_error_from(err) ==
    LET code ==
          CASE err.tag = "PlatformNotSupported" -> "ERR_PLATFORM_NOT_SUPPORTED"
            [] err.tag = "KeyNotFound" -> "ERR_KEY_NOT_FOUND"
            [] err.tag = "AccessDenied" -> "ERR_ACCESS_DENIED"
            [] err.tag = "Io" -> "ERR_IO"
            [] err.tag = "Serialization" -> "ERR_SERIALIZATION"
            [] err.tag = "Platform" -> "ERR_PLATFORM"
    IN  [code |-> code, message |-> to_string(err)]

\* Mutant of napi_error_from: Platform is given the code of
\* PlatformNotSupported.
napi_error_from_merged(err) ==
    LET code ==
          CASE err.tag = "PlatformNotSupported" -> "ERR_PLATFORM_NOT_SUPPORTED"
            [] err.tag = "KeyNotFound" -> "ERR_KEY_NOT_FOUND"
            [] err.tag = "AccessDenied" -> "ERR_ACCESS_DENIED"
            [] err.tag = "Io" -> "ERR_IO"
            [] err.tag = "Serialization" -> "ERR_SERIALIZATION"
            [] err.tag = "Platform" -> "ERR_PLATFORM_NOT_SUPPORTED"
    IN  [status |-> "GenericFailure",
         reason |-> <<code, ": ">> \o to_string(err)]

\* impl From<KeystoreError> for napi::Error: the code is the head of the
\* reason, format!("{}: {}", code, err).
napi_error_from(err) ==
    LET code ==
          CASE err.tag = "PlatformNotSupported" -> "ERR_PLATFORM_NOT_SUPPORTED"
            [] err.tag = "KeyNotFound" -> "ERR_KEY_NOT_FOUND"
            [] err.tag = "AccessDenied" -> "ERR_ACCESS_DENIED"
            [] err.tag = "Io" -> "ERR_IO"
            [] err.tag = "Serialization" -> "ERR_SERIALIZATION"
            [] err.tag = "Platform" -> "ERR_PLATFORM"
    IN  [status |-> "GenericFailure",
         reason |-> <<code, ": ">> \o to_string(err)]

\* A KeystoreError is converted for the boundary: the conversion enters
\* the history with the error it was given and the object it returned.
converts(op, err, object) ==
    /\ completes(Call(op, Native, 0, sEmpty, sEmpty, <<err>>, Ok(object), NoFault))
    /\ fallback_untouched
    /\ UNCHANGED napi

----------------------------------------------------------------------------
(* Native adapter: WindowsKeystore *)

\* The NUL character.
Nul == "NUL"
sANul == <<"a", Nul, "x">>        \* "a\0x"

\* Identities and values the calls of SpecWindows are made with.
WindowsIdentities ==
    {<<sA, sB>>, <<sA, sC>>, <<sAB, sC>>, <<sA, sBC>>, <<sANul, sB>>}
WindowsValues == {sV, sW}

\* PCWSTR(hstring.as_ptr()): the callee reads the string up to its first
\* NUL.
pcwstr(s) ==
    LET nuls == {i \in 1..Len(s) : s[i] = Nul} IN
    IF nuls = {}
    THEN s
    ELSE SubSeq(s, 1, (CHOOSE i \in nuls : \A j \in nuls : i <= j) - 1)

\* format!("{}:{}", service, account)
credential_name(service, account) == service \o <<Colon>> \o account

\* The generic credentials of the credential manager, <<TargetName,
\* UserName, CredentialBlob>>, are held in napi.secrets; those of a
\* target name:
credentials_named(n, name) == {e \in n.secrets : e[1] = name}

windows_call(op, service, account, value, result) ==
    /\ completes(Call(op, Native, 0, service, account, value, result, NoFault))
    /\ fallback_untouched

\* WindowsKeystore::set_password: CredWriteW creates the credential of
\* the target name or replaces it.
windows_set_password(service, account, value) ==
    /\ LET name == pcwstr(credential_name(service, account)) IN
       napi' = [napi EXCEPT !.secrets =
                   (@ \ credentials_named(napi, name))
                     \cup {<<name, pcwstr(account), value>>}]
    /\ windows_call("set", service, account, value, Ok(Unit))

\* WindowsKeystore::get_password: CredReadW by target name.
windows_get_password(service, account) ==
    /\ napi' = napi
    /\ LET found == credentials_named(napi, pcwstr(credential_name(service, account))) IN
       windows_call("get", service, account, sEmpty,
           IF found = {}
           THEN [tag |-> "KeyNotFound", val |-> credential_name(service, account)]
           ELSE Ok((CHOOSE e \in found : TRUE)[3]))

\* WindowsKeystore::delete_password: CredDeleteW by target name.
windows_delete_password(service, account) ==
    /\ LET found == credentials_named(napi, pcwstr(credential_name(service, account))) IN
       /\ napi' = [napi EXCEPT !.secrets = @ \ found]
       /\ windows_call("delete", service, account, sEmpty,
              IF found = {}
              THEN [tag |-> "KeyNotFound", val |-> credential_name(service, account)]
              ELSE Ok(Unit))

----------------------------------------------------------------------------------------------------------------------------------------------------
(* Specifications *)

SetWith(ids, vals, cap) ==
    /\ nonceCtr < cap
    /\ \E i \in Instances, id \in ids, v \in vals :
          set_password(i, id[1], id[2], v, NoFault)

GetWith(ids) ==
    \E i \in Instances, id \in ids : get_password(i, id[1], id[2], NoFault)

DeleteWith(ids) ==
    \E i \in Instances, id \in ids : delete_password(i, id[1], id[2], NoFault)

\* Spec: one store instance, constructed, on a data file that does not
\* exist yet; its calls are made one at a time.
Init ==
    /\ file = [exists |-> FALSE, entries |-> << >>]
    /\ keyFile = 1
    /\ store = [i \in Instances |-> IF i = 1 THEN 1 ELSE 0]
    /\ keyCtr = 1
    /\ nonceCtr = 0
    /\ hist = <<NoCall, NoCall>>
    /\ shadow = [id \in AllIdentities |-> NeverSet]
    /\ fmode = NoMode
    /\ keyMode = OwnerOnly
    /\ Quiet

SetPassword == SetWith(Identities, Values, MaxNonce)
GetPassword == GetWith(Identities)
DeletePassword == DeleteWith(Identities)

Next ==
    \/ SetPassword
    \/ GetPassword
    \/ DeletePassword

Spec == Init /\ [][Next]_vars

\* SpecCodec: the same store, called with strings that are empty, hold
\* the delimiter in any of the three fields, or are not ASCII.
CodecSet == SetWith(CodecIdentities, CodecValues, CodecMaxNonce)
CodecGet == GetWith(CodecIdentities)
CodecDelete == DeleteWith(CodecIdentities)

NextCodec ==
    \/ CodecSet
    \/ CodecGet
    \/ CodecDelete

SpecCodec == Init /\ [][NextCodec]_vars

\* SpecKeys: no instance constructed and no key file yet; instances are
\* constructed and re-constructed, the key file can be lost between two
\* constructions, and stored ciphertexts can be corrupted.
InitKeys ==
    /\ file = [exists |-> FALSE, entries |-> << >>]
    /\ keyFile = 0
    /\ store = [i \in Instances |-> 0]
    /\ keyCtr = 0
    /\ nonceCtr = 0
    /\ hist = <<NoCall>>
    /\ shadow = [id \in AllIdentities |-> NeverSet]
    /\ fmode = NoMode
    /\ keyMode = NoMode
    /\ Quiet

New == (\E i \in Instances : new(i, NoFault)) /\ UNCHANGED napi
KeysSet == SetWith(KeysIdentities, KeysValues, KeysMaxNonce)
KeysGet == GetWith(KeysIdentities)
KeysDelete == DeleteWith(KeysIdentities)

NextKeys ==
    \/ New
    \/ KeyFileLost
    \/ Corrupt
    \/ KeysSet
    \/ KeysGet
    \/ KeysDelete

SpecKeys == InitKeys /\ [][NextKeys]_vars

\* SpecPersist: as SpecKeys, with the two last calls kept and no
\* corruption of the data file.
InitPersist ==
    /\ file = [exists |-> FALSE, entries |-> << >>]
    /\ keyFile = 0
    /\ store = [i \in Instances |-> 0]
    /\ keyCtr = 0
    /\ nonceCtr = 0
    /\ hist = <<NoCall, NoCall>>
    /\ shadow = [id \in AllIdentities |-> NeverSet]
    /\ fmode = NoMode
    /\ keyMode = NoMode
    /\ Quiet

NextPersist ==
    \/ New
    \/ KeyFileLost
    \/ KeysSet
    \/ KeysGet
    \/ KeysDelete

SpecPersist == InitPersist /\ [][NextPersist]_vars

\* SpecFaults: two instances constructed with the same key on the same
\* data file, their calls made one at a time; any filesystem operation
\* of a call can fail, and between calls the data file can be replaced
\* by content that is not a document or have its permissions changed.
InitFaults ==
    /\ file = [exists |-> FALSE, entries |-> << >>]
    /\ keyFile = 1
    /\ store = [i \in Instances |-> 1]
    /\ keyCtr = 1
    /\ nonceCtr = 0
    /\ hist = <<NoCall>>
    /\ shadow = [id \in AllIdentities |-> NeverSet]
    /\ fmode = NoMode
    /\ keyMode = OwnerOnly
    /\ Quiet

FaultsSet ==
    /\ nonceCtr < FaultsMaxNonce
    /\ \E i \in Instances, id \in FaultsIdentities, v \in FaultsValues, fault \in Faults :
          set_password(i, id[1], id[2], v, fault)

FaultsGet ==
    \E i \in Instances, id \in FaultsIdentities, fault \in Faults :
        get_password(i, id[1], id[2], fault)

FaultsDelete ==
    \E i \in Instances, id \in FaultsIdentities, fault \in Faults :
        delete_password(i, id[1], id[2], fault)

FaultsIsAvailable == \E i \in Instances : is_available(i)

NextFaults ==
    \/ FaultsSet
    \/ FaultsGet
    \/ FaultsDelete
    \/ FaultsIsAvailable
    \/ Garble
    \/ Chmod

SpecFaults == InitFaults /\ [][NextFaults]_vars

\* SpecRace: two instances constructed with the same key on the same
\* data file; the filesystem operations of their calls interleave and
\* none of them fails.
RaceIdentities == {<<sA, sB>>, <<sA, sC>>}
RaceValues == {sV}

InitRace ==
    /\ file = [exists |-> FALSE, entries |-> << >>]
    /\ keyFile = 1
    /\ store = [i \in Instances |-> 1]
    /\ keyCtr = 1
    /\ nonceCtr = 0
    /\ hist = <<NoCall>>
    /\ shadow = [id \in AllIdentities |-> NeverSet]
    /\ fmode = NoMode
    /\ keyMode = OwnerOnly
    /\ Quiet

BeginSet ==
    /\ nonceCtr < RaceMaxNonce
    /\ \E i \in Instances, id \in RaceIdentities, v \in RaceValues :
          begin(i, "set", id[1], id[2], v)
BeginDelete ==
    \E i \in Instances, id \in RaceIdentities : begin(i, "delete", id[1], id[2], sEmpty)
Read == \E i \in Instances, id \in RaceIdentities : read(i, id[1], id[2])
Derive == \E i \in Instances : derive(i)
Truncate == \E i \in Instances : truncate(i)
Write == \E i \in Instances : write(i)
Restrict == \E i \in Instances : restrict(i)

NextRace ==
    \/ BeginSet
    \/ BeginDelete
    \/ Read
    \/ Derive
    \/ Truncate
    \/ Write
    \/ Restrict

SpecRace == InitRace /\ [][NextRace]_vars

\* SpecNapi: one NapiKeystore on Linux, constructed while the Secret
\* Service answers or does not, and then called while the Secret Service
\* comes and goes.
NapiIdentities == {<<sA, sB>>, <<sA, sC>>}
NapiValues == {sV, sW}

NapiNew == \E fault \in KeyFaults : napi_new(fault)
NapiSet ==
    /\ nonceCtr < NapiMaxNonce
    /\ \E id \in NapiIdentities, v \in NapiValues : napi_set_password(id[1], id[2], v)
NapiGet == \E id \in NapiIdentities : napi_get_password(id[1], id[2])
NapiDelete == \E id \in NapiIdentities : napi_delete_password(id[1], id[2])
NapiIsAvailable == napi_is_available

NextNapi ==
    \/ SecretService
    \/ NapiNew
    \/ NapiSet
    \/ NapiGet
    \/ NapiDelete
    \/ NapiIsAvailable

SpecNapi == InitKeys /\ [][NextNapi]_vars

\* SpecNew: no instance constructed and no key file yet; constructions
\* can fail at any filesystem operation, the key file can be removed
\* between two constructions, and the constructed instances are used.
NewWithFaults ==
    (\E i \in Instances, fault \in KeyFaults : new(i, fault)) /\ UNCHANGED napi

NextNew ==
    \/ NewWithFaults
    \/ KeyFileLost
    \/ KeysSet
    \/ KeysGet
    \/ KeysDelete

SpecNew == InitKeys /\ [][NextNew]_vars

\* SpecErrors: KeystoreError values of every variant, with any reason,
\* are converted by the three conversions of the boundary.
ErrorCode ==
    \E err \in KeystoreErrors : converts("error_code", err, error_code(err))
IntoNapiKeystoreError ==
    \E err \in KeystoreErrors :
        converts("NapiKeystoreError::from", err, napi_keystore_error_from(err))
IntoNapiError ==
    \E err \in KeystoreErrors : converts("Error::from", err, napi_error_from(err))

NextErrors ==
    \/ ErrorCode
    \/ IntoNapiKeystoreError
    \/ IntoNapiError

SpecErrors == Init /\ [][NextErrors]_vars

\* SpecNewRace: no instance constructed and no key file yet; the
\* filesystem operations of the constructions of two instances
\* interleave, none of them fails, and the constructed instances are
\* used one call at a time.
NewRead == \E i \in Instances : new_read(i)
NewWrite == \E i \in Instances : new_write(i)
NewRestrict == \E i \in Instances : new_restrict(i)

NextNewRace ==
    \/ NewRead
    \/ NewWrite
    \/ NewRestrict
    \/ KeysSet
    \/ KeysGet
    \/ KeysDelete

SpecNewRace == InitKeys /\ [][NextNewRace]_vars

\* SpecWindows: one WindowsKeystore, called one call at a time on a
\* credential manager that holds no credential at first.
WindowsSet ==
    \E id \in WindowsIdentities, v \in WindowsValues :
        windows_set_password(id[1], id[2], v)
WindowsGet == \E id \in WindowsIdentities : windows_get_password(id[1], id[2])
WindowsDelete == \E id \in WindowsIdentities : windows_delete_password(id[1], id[2])

NextWindows ==
    \/ WindowsSet
    \/ WindowsGet
    \/ WindowsDelete

SpecWindows == InitKeys /\ [][NextWindows]_vars

----------------------------------------------------------------------------
(* Properties *)

IdNoColon(id) == NoColon(id[1]) /\ NoColon(id[2])

TargetOf(c) == <<c.service, c.account>>

SameTarget(c, d) == c.inst = d.inst /\ TargetOf(c) = TargetOf(d)

\* The step is the call c (the call the step leaves as last).
SetStep(c) ==
    c.op = "set" /\ set_password(c.inst, c.service, c.account, c.value, c.fault)
GetStep(c) ==
    c.op = "get" /\ get_password(c.inst, c.service, c.account, c.fault)
DeleteStep(c) ==
    c.op = "delete" /\ delete_password(c.inst, c.service, c.account, c.fault)

\* No set_password so far was given a service or account holding ':'.
PlainHistory == \A id \in AllIdentities : shadow[id].st = "never" \/ IdNoColon(id)

\* What the callers expect get_password to return for an identity.
Expected(id) ==
    IF shadow[id].st = "live" THEN Ok(shadow[id].val) ELSE KeyNotFound(id[1], id[2])

\* The (service, account) an entry decodes to under key, <<>> when it
\* does not decrypt or does not split in three.
identity_of(key, entry) ==
    LET parts == splitn(3, entry.ciphertext.pt) IN
    IF decrypt_ok(key, entry.nonce, entry.ciphertext) /\ Len(parts) = 3
    THEN <<parts[1], parts[2]>>
    ELSE << >>

\* last is a get_password that directly follows a set_password of the
\* same instance for the same service and account.
SetThenGet == prev.op = "set" /\ last.op = "get" /\ SameTarget(prev, last)

\* C1, as claimed: set_password(service, account, value) followed by
\* get_password(service, account) returns exactly value, for every triple
\* of strings, also when service or account holds the delimiter.
C1_RoundTripAnyStrings ==
    SetThenGet => last.result = Ok(prev.value)

\* C1, amended: set_password followed by get_password returns exactly
\* value when service and account hold no ':' (they may be empty, value
\* may be empty, hold ':' or be non-ASCII); when service or account holds
\* a ':' the get_password fails with KeyNotFound.
C1_RoundTrip ==
    SetThenGet =>
        last.result = IF IdNoColon(TargetOf(last))
                      THEN Ok(prev.value)
                      ELSE KeyNotFound(last.service, last.account)

\* C1 witness: the round trip of ("", "", "::") on a document that
\* already held a record.
C1_Witness ==
    /\ SetThenGet
    /\ last.service = sEmpty /\ last.account = sEmpty
    /\ last.result = Ok(sCC)
    /\ Len(file.entries) = 2

\* C2: for service and account without ':', set_password followed by
\* get_password returns the value unchanged however many ':' the value
\* holds: the stored plaintext splits into exactly service, account and
\* the whole value.
C2_ColonsInValue ==
    (SetThenGet /\ IdNoColon(TargetOf(last))) =>
        /\ last.result = Ok(prev.value)
        /\ \E j \in 1..Len(file.entries) :
              /\ file.entries[j].nonce = nonceCtr
              /\ splitn(3, file.entries[j].ciphertext.pt)
                    = <<prev.service, prev.account, prev.value>>

\* C2 witness: the value "c:v" comes back from identity ("a", "b").
C2_Witness ==
    /\ SetThenGet
    /\ last.service = sA /\ last.account = sB
    /\ prev.value = sCV
    /\ last.result = Ok(sCV)

----------------------------------------------------------------------------
(* Properties of call sequences *)

\* C3 body, for the calls whose identity satisfies ok: after
\* set_password(s, a, v1) a set_password(s, a, v2) leaves the number of
\* records as it was, and a get_password(s, a) after the two returns v2.
Update(ok(_)) ==
    LET c == last' IN
    /\ (last.op = "set" /\ SameTarget(last, c) /\ ok(TargetOf(c)) /\ SetStep(c))
          => Len(file'.entries) = Len(file.entries)
    /\ (prev.op = "set" /\ SameTarget(prev, last)
          /\ last.op = "set" /\ SameTarget(last, c) /\ ok(TargetOf(c)) /\ GetStep(c))
          => c.result = Ok(last.value)

AnyIdentity(id) == TRUE

\* C3, as claimed: for every identity, set(s,a,v1); set(s,a,v2); get(s,a)
\* returns v2 and the second set does not change the record count.
C3_UpdateAnyIdentity == [][Update(AnyIdentity)]_vars

\* C3, amended: for every identity whose service and account hold no
\* ':', set(s,a,v1); set(s,a,v2); get(s,a) returns v2 and the second set
\* does not change the record count.
C3_Update == [][Update(IdNoColon)]_vars

\* C3 witness: two set_password calls have been made, both for the
\* identity of the get_password that followed; one record is stored, it
\* is the second call's, and the get_password returned its value.
C3_Witness ==
    /\ SetThenGet /\ IdNoColon(TargetOf(last))
    /\ nonceCtr = 2
    /\ Len(file.entries) = 1 /\ file.entries[1].nonce = 2
    /\ shadow = [id \in AllIdentities |->
                   IF id = TargetOf(last) THEN Live(prev.value) ELSE NeverSet]
    /\ last.result = Ok(prev.value)

\* No two records of the document decrypt, under the key of a constructed
\* instance, to the same (service, account).
UniqueIdentities ==
    \A i \in Instances : store[i] # 0 =>
        \A j, k \in 1..Len(file.entries) :
            (j < k /\ identity_of(store[i], file.entries[j]) # << >>)
              => identity_of(store[i], file.entries[j])
                   # identity_of(store[i], file.entries[k])

\* C4, as claimed: after any sequence of set_password and delete_password
\* calls on a store that starts empty, no two records decrypt to the same
\* identity.
C4_UniqueAnyCalls == UniqueIdentities

\* C4, amended: after any sequence of delete_password calls and of
\* set_password calls whose service and account hold no ':', no two
\* records decrypt to the same identity.
C4_Unique == PlainHistory => UniqueIdentities

\* C4 witness: three set_password calls without ':' left two records.
C4_Witness ==
    /\ PlainHistory
    /\ nonceCtr = 3
    /\ Len(file.entries) = 2
    /\ last.op = "set"

\* last is a get_password or delete_password for an identity no
\* set_password was ever called with.
NeverSetLookup ==
    /\ last.op \in {"get", "delete"}
    /\ shadow[TargetOf(last)].st = "never"

DeleteThenLookup ==
    LET c == last' IN
    (/\ prev.op = "set" /\ SameTarget(prev, last)
     /\ last.op = "delete" /\ last.result.tag = "Ok" /\ SameTarget(last, c)
     /\ (GetStep(c) \/ DeleteStep(c)))
    => c.result = KeyNotFound(c.service, c.account)

\* C6, as claimed.
C6_DeleteThenGetAnyHistory == [][DeleteThenLookup]_vars

\* C6, amended: the same, on a store no set_password of which was given
\* a service or account holding ':'.
C6_DeleteThenGet == [][PlainHistory => DeleteThenLookup]_vars

\* C6 witness: set, delete, then a second delete that failed.
C6_Witness ==
    /\ PlainHistory
    /\ prev.op = "delete" /\ prev.result.tag = "Ok"
    /\ last.op = "delete" /\ SameTarget(prev, last)
    /\ last.result.tag = "KeyNotFound"
    /\ nonceCtr = 1
    /\ file.exists /\ file.entries = << >>

\* C7 body: a set_password (for an identity satisfying ok) or a
\* delete_password on one identity changes get_password for no other
\* identity, and (when gets holds) every get_password returns the value
\* most recently set for its own identity.
Isolation(ok(_), gets) ==
    LET c == last' IN
    /\ ((ok(TargetOf(c)) /\ SetStep(c)) \/ DeleteStep(c))
        => \A other \in Identities \ {TargetOf(c)} :
              get_password_result(file', c.key, other[1], other[2])
                = get_password_result(file, c.key, other[1], other[2])
    /\ (gets /\ GetStep(c)) => c.result = Expected(TargetOf(c))

\* C7, as claimed: for any distinct identities.
C7_IsolationAnyIdentity == [][Isolation(AnyIdentity, TRUE)]_vars

\* C7, amended: a delete_password, or a set_password whose service and
\* account hold no ':', never changes what get_password returns for a
\* different identity; and while no set_password was given a service or
\* account holding ':', each get_password returns the value most recently
\* set for exactly its identity (KeyNotFound when there is none).
C7_Isolation == [][Isolation(IdNoColon, PlainHistory)]_vars

\* C7 witness: (a,b), (a,c) and (x,b) hold different values and the
\* get_password for (a,b) returned its own.
C7_Witness ==
    /\ PlainHistory
    /\ shadow[<<sA, sB>>] = Live(sV)
    /\ shadow[<<sA, sC>>] = Live(sW)
    /\ shadow[<<sX, sB>>] = Live(sW)
    /\ last.op = "get" /\ last.service = sA /\ last.account = sB
    /\ last.result = Ok(sV)

\* Position of the entry with this nonce in a document, 0 when absent.
PosOf(data, nonce) ==
    LET at == {j \in 1..Len(data) : data[j].nonce = nonce} IN
    IF at = {} THEN 0 ELSE CHOOSE j \in at : TRUE

\* C9: a set_password for an identity the document has no record of puts
\* its record at the end and moves nothing; a set_password for an identity
\* the document has a record of puts its record at the index of that
\* record and moves nothing; after a delete_password the remaining
\* records are in the relative order they had.
DocumentOrder ==
    LET c == last'
        before == load_data(file)
        after == file'.entries
        held == {j \in 1..Len(before) : identity_of(c.key, before[j]) = TargetOf(c)}
    IN
    /\ SetStep(c) =>
          IF held = {}
          THEN /\ Len(after) = Len(before) + 1
               /\ after[Len(after)].nonce = nonceCtr'
               /\ \A j \in 1..Len(before) : after[j] = before[j]
          ELSE /\ Len(after) = Len(before)
               /\ \E j \in held :
                     /\ \A k \in held : j <= k
                     /\ after[j].nonce = nonceCtr'
                     /\ \A k \in 1..Len(before) : k # j => after[k] = before[k]
    /\ DeleteStep(c) =>
          /\ Len(after) = IF c.result.tag = "Ok" THEN Len(before) - 1 ELSE Len(before)
          /\ \A p, q \in 1..Len(after) :
                /\ PosOf(before, after[p].nonce) # 0
                /\ before[PosOf(before, after[p].nonce)] = after[p]
                /\ p < q => PosOf(before, after[p].nonce) < PosOf(before, after[q].nonce)

----------------------------------------------------------------------------
(* Properties across instances and keys *)

\* C8: a value stored by one instance is returned by get_password on an
\* instance constructed after the set_password with the same key (and
\* the same file).
Persistence ==
    LET c == last' IN
    (/\ prev.op = "set"
     /\ last.op = "new" /\ last.key = prev.key
     /\ c.inst = last.inst /\ TargetOf(c) = TargetOf(prev)
     /\ GetStep(c))
    => c.result = Ok(prev.value)

C8_Persistence == [][Persistence]_vars

\* C8 witness: instance 2 was constructed after the only set_password,
\* read the key the key file held, and its get_password returned the
\* value.
C8_Witness ==
    /\ prev.op = "new" /\ prev.inst = 2
    /\ last.op = "get" /\ last.inst = 2 /\ last.key = prev.key
    /\ nonceCtr = 1 /\ keyCtr = 1
    /\ last.result = Ok(sV)

\* The document as an instance holding key can read it: the entries that
\* decrypt under key.
Visible(f, key) ==
    LET opens(e) == decrypt_ok(key, e.nonce, e.ciphertext)
    IN  [exists |-> f.exists, entries |-> SelectSeq(f.entries, opens)]

\* C10: every call returns what it would return, and leaves the readable
\* entries as it would leave them, were the entries that do not decrypt
\* under the instance's key absent from the document; no call fails
\* because of them.
SkipsUndecryptable ==
    LET c == last'
        seen == Visible(file, c.key)
        index == derive_index(seen, c.key, c.service, c.account)
    IN
    /\ GetStep(c) =>
          c.result = get_password_result(seen, c.key, c.service, c.account)
    /\ SetStep(c) =>
          /\ c.result.tag = "Ok"
          /\ Visible(file', c.key).entries
                = set_entries(seen, c.key, nonceCtr', c.service, c.account, c.value)
    /\ DeleteStep(c) =>
          /\ c.result.tag = IF index # 0 THEN "Ok" ELSE "KeyNotFound"
          /\ Visible(file', c.key).entries
                = IF index # 0 THEN remove(seen.entries, index) ELSE seen.entries

C10_SkipsUndecryptable == [][SkipsUndecryptable]_vars

\* C10 witness: get_password found its record behind an entry that does
\* not decrypt under the instance's key.
C10_Witness ==
    /\ last.op = "get" /\ last.result.tag = "Ok"
    /\ Len(file.entries) = 2
    /\ ~decrypt_ok(last.key, file.entries[1].nonce, file.entries[1].ciphertext)
    /\ decrypt_ok(last.key, file.entries[2].nonce, file.entries[2].ciphertext)

----------------------------------------------------------------------------
(* Properties of failing calls *)

NewStep(c) == c.op = "new" /\ new(c.inst, c.fault)

\* The step is a call of set_password, get_password or delete_password.
StoreStep(c) == SetStep(c) \/ GetStep(c) \/ DeleteStep(c)

\* The data file holds the same bytes after the step as before it.
FileUntouched == file' = file /\ fkind' = fkind

\* C11, as claimed: when the data file exists and its content is not a
\* parsable document, set_password, get_password and delete_password fail
\* with a Serialization error and leave the file content as it was (no
\* filesystem operation failing).
C11_MalformedIsSerialization ==
    [][LET c == last' IN
       (file.exists /\ fkind # Document /\ StoreStep(c) /\ c.fault = NoFault)
         => (c.result = Serialization /\ FileUntouched)]_vars

\* C12, as claimed: whenever set_password or delete_password returns an
\* error, the data file holds the same document as before the call.
C12_FailedCallLeavesFile ==
    [][LET c == last' IN
       ((SetStep(c) \/ DeleteStep(c)) /\ c.result.tag # "Ok")
         => FileUntouched]_vars

\* C14, as claimed, for calls made one at a time by instances that share
\* key and file, with service and account free of ':': a get_password
\* that meets no failing filesystem operation, on a data file that holds
\* a document, returns the value of the last successful set_password for
\* its identity that no successful delete_password followed.
C14_SerializedNoLostUpdate ==
    (/\ last.op = "get" /\ last.fault = NoFault
     /\ fkind = Document
     /\ shadow[TargetOf(last)].st = "live")
    => last.result = Ok(shadow[TargetOf(last)].val)

\* C16, as claimed: whenever a load of the data file fails inside
\* set_password or delete_password, in the call's first load_data or in
\* the one made by derive_index, the call returns that Io or Serialization
\* failure and neither saves nor reports KeyNotFound.
C16_LoadFailureReturned ==
    [][LET c == last' IN
       ((SetStep(c) \/ DeleteStep(c)) /\ c.fault \in {"load", "reload"})
         => (c.result.tag \in {"Io", "Serialization"} /\ FileUntouched)]_vars

\* C19: whenever set_password returns Ok, or delete_password returns Ok
\* (it found its record), the data file's permissions are 0600 after the
\* call, whatever they were before it.
C19_OwnerOnlyAfterSave ==
    [][LET c == last' IN
       ((SetStep(c) \/ DeleteStep(c)) /\ c.result.tag = "Ok")
         => (file'.exists /\ fmode' = OwnerOnly)]_vars

\* C19 witness: the set_password that created the data file and the
\* delete_password that found its record both returned Ok; the file is
\* an empty document with permissions 0600.
C19_Witness ==
    /\ last.op = "delete" /\ last.result.tag = "Ok"
    /\ nonceCtr = 1
    /\ file.exists /\ Len(file.entries) = 0
    /\ shadow[<<sA, sB>>].st = "deleted"
    /\ fmode = OwnerOnly

----------------------------------------------------------------------------
(* Properties of the key manager *)

\* C17: when the key file holds KEY_SIZE bytes, a construction returns
\* them as the key and writes nothing to the key file and draws no key;
\* so the new instance holds the key of every instance constructed from
\* this key file, and opens every record such an instance sealed.
C17_KeyReuse ==
    [][LET c == last' IN
       (NewStep(c) /\ keyFile # 0)
         => /\ c.result.tag = "Ok"
            /\ store'[c.inst] = keyFile
            /\ keyFile' = keyFile /\ keyMode' = keyMode /\ keyCtr' = keyCtr
            /\ \A j \in 1..Len(file.entries) :
                  file.entries[j].ciphertext.k = keyFile
                    => decrypt_ok(store'[c.inst], file.entries[j].nonce,
                                  file.entries[j].ciphertext)]_vars

\* C17 witness: one key was ever generated, instance 2 was constructed
\* last, both instances hold that key, and the data file holds a record
\* sealed under it.
C17_Witness ==
    /\ last.op = "new" /\ last.inst = 2 /\ last.result.tag = "Ok"
    /\ keyCtr = 1
    /\ store[1] = 1 /\ store[2] = 1
    /\ Len(file.entries) = 1
    /\ decrypt_ok(store[2], file.entries[1].nonce, file.entries[1].ciphertext)

\* C18: a construction that meets a failure of create_dir_all, fs::write,
\* fs::metadata or fs::set_permissions returns an Io error and constructs
\* no instance; and every instance there is holds a key.
C18_NoStoreWithoutKey ==
    [][LET c == last' IN
       NewStep(c) =>
         /\ c.fault # NoFault => (c.result = Io /\ store' = store)
         /\ c.result.tag = "Ok" => (store'[c.inst] # 0 /\ store'[c.inst] = keyFile')]_vars

\* C18 witness: the only construction so far failed to restrict the
\* permissions of the key file it had written; there is no instance.
C18_Witness ==
    /\ last.op = "new" /\ last.fault = "chmod" /\ last.result = Io
    /\ keyCtr = 1 /\ keyFile = 1
    /\ \A i \in Instances : store[i] = 0

\* C28: when the key file does not hold KEY_SIZE readable bytes, a
\* construction draws a key that no earlier construction drew; when it
\* succeeds, the key file holds exactly that key, which is the key of the
\* new instance, and a construction that follows reuses it.
C28_KeyGenerated ==
    [][LET c == last' IN
       (NewStep(c) /\ keyFile = 0) =>
           /\ keyCtr' = keyCtr + 1
           /\ c.result.tag = "Ok" =>
                  /\ c.key \notin 0..keyCtr
                  /\ keyFile' = c.key
                  /\ store'[c.inst] = c.key
                  /\ get_or_create_key(keyFile', keyCtr') = c.key]_vars

\* An instance sealed a record under the first key, the key file was
\* lost, and the construction that completed last generated the second
\* key: the key file holds it and the record no longer opens.
C28_Witness ==
    /\ last.op = "new" /\ last.result = Ok(Unit)
    /\ last.key = 2
    /\ keyCtr = 2
    /\ keyFile = 2
    /\ store[last.inst] = 2
    /\ Len(file.entries) = 1
    /\ file.entries[1].ciphertext.k = 1
    /\ ~decrypt_ok(keyFile, file.entries[1].nonce, file.entries[1].ciphertext)

\* C29, as claimed: after a construction that returned Ok the key file
\* has the permissions 0600, whether its key was generated or reused.
C29_KeyFileOwnerOnly ==
    [][LET c == last' IN
       (NewStep(c) /\ c.result.tag = "Ok") => keyMode' = OwnerOnly]_vars

\* C33, as claimed: once the constructions that ran while there was no
\* key file have returned, every instance holds the key the key file
\* holds, and opens every record of the document.
C33_OneKey ==
    (\A i \in Instances : proc[i].pc = "idle") =>
        \A i \in Instances :
            store[i] # 0 =>
                /\ store[i] = keyFile
                /\ \A j \in 1..Len(file.entries) :
                       decrypt_ok(store[i], file.entries[j].nonce,
                                  file.entries[j].ciphertext)

----------------------------------------------------------------------------
(* Properties of interleaved calls *)

\* C13: with two instances on one file and no locking, the save of a
\* call replaces the file by the document of the call's first load with
\* the call's own change: every record another call wrote to the file
\* since that load is gone from the file, although that call returned or
\* will return Ok.
C13_LostUpdate ==
    [][\A i \in Instances :
          (proc[i].pc = "truncated" /\ proc'[i].pc = "written" /\ fkind' = Document)
            => \A j \in 1..Len(file'.entries) :
                  file'.entries[j].nonce \notin proc[i].missed]_vars

\* C13 witness: two set_password calls were made, for different
\* identities, and both returned Ok; no call is in progress and the
\* document holds one record only.
C13_Witness ==
    /\ \A i \in Instances : proc[i].pc = "idle"
    /\ nonceCtr = 2
    /\ last.op = "set" /\ last.result.tag = "Ok"
    /\ shadow[<<sA, sB>>].st = "live"
    /\ shadow[<<sA, sC>>].st = "live"
    /\ fkind = Document
    /\ Len(file.entries) = 1

\* C15, as claimed: a load_data that runs while the other instance is
\* inside save_data sees the complete document from before that save or
\* the complete document it writes, so that no call fails on a file that
\* does not parse.
C15_NoPartialDocument ==
    last.result.tag \notin {"Serialization", "Io"}

\* C30, as claimed: whatever the interleaving, no set_password and no
\* delete_password ends in a panic, as the index derive_index returns is
\* an index of the document the call loaded at its start.
C30_IndexInBounds ==
    /\ last.result # Panic
    /\ \A i \in Instances :
           proc[i].pc = "loaded" =>
               derive_index(file, store[i], proc[i].service, proc[i].account)
                   <= Len(proc[i].data)

\* C31, as claimed: whatever the interleaving, the record of its document
\* that a delete_password removes or a set_password overwrites, at the
\* index derive_index returned, decrypts to the identity the call was
\* given.
C31_TargetRecordOnly ==
    [][\A i \in Instances :
          (proc[i].pc = "loaded" /\ proc'[i].pc = "saving" /\ proc'[i].index # 0)
            => identity_of(store[i], proc[i].data[proc'[i].index])
                   = <<proc[i].service, proc[i].account>>]_vars

\* No two records of the document decrypt to the same identity.
NoDuplicates ==
    fkind = Document =>
        \A j \in 1..Len(file.entries) : \A k \in 1..Len(file.entries) :
            (j < k /\ identity_of(keyFile, file.entries[j]) # << >>)
              => identity_of(keyFile, file.entries[j])
                     # identity_of(keyFile, file.entries[k])

\* C32, as claimed: whatever the interleaving of set_password and
\* delete_password calls, the document never holds two records of one
\* identity, and when a set_password returns Ok no record of its identity
\* precedes the record it wrote.
C32_NoDuplicateIdentity ==
    [][/\ NoDuplicates'
       /\ \A i \in Instances :
             (proc[i].pc = "written" /\ proc'[i].pc = "idle" /\ proc[i].op = "set")
               => \A n \in 1..Len(file'.entries) :
                     file'.entries[n].nonce = proc[i].nonce
                       => \A j \in 1..(n - 1) :
                             identity_of(store[i], file'.entries[j])
                                 # <<proc[i].service, proc[i].account>>]_vars

----------------------------------------------------------------------------
(* Properties of the selection layer *)

\* C20: NapiKeystore::new on Linux holds the native adapter when its
\* is_available() is true and otherwise constructs and holds the fallback
\* store, which is constructed in no other case; the backend held serves
\* every later call: it never changes, a call served by the native
\* adapter touches neither the data file nor the key file, a call served
\* by the fallback store touches no native credential, and is_available
\* answers for the backend held.
C20_Selection ==
    [][/\ (napi.backend = "none" /\ napi'.backend # "none")
            => /\ napi'.backend = IF napi.available THEN "linux" ELSE "fallback"
               /\ napi'.backend = "fallback" <=> store'[NapiInstance] # 0
       /\ napi.backend # "none" => napi'.backend = napi.backend
       /\ store' # store => (~napi.available /\ napi.backend = "none")
       /\ napi.backend = "linux"
            => UNCHANGED <<file, fkind, fmode, keyFile, keyMode, nonceCtr, store>>
       /\ napi.backend = "fallback" => napi'.secrets = napi.secrets
       /\ (hist' # hist /\ last'.op = "is_available")
            => last'.result = Ok(IF napi.backend = "linux" /\ ~napi.available
                                 THEN False ELSE True)
       /\ (hist' # hist /\ last'.op \in {"set", "get", "delete"})
            => last'.inst = IF napi.backend = "linux" THEN Native ELSE NapiInstance]_vars

\* C20 witness: the NapiKeystore was constructed while the Secret Service
\* did not answer; the Secret Service answers now, and the set_password
\* made since went to the data file and not to the Secret Service.
C20_Witness ==
    /\ napi.backend = "fallback"
    /\ napi.available
    /\ last.op = "set" /\ last.inst = NapiInstance /\ last.result.tag = "Ok"
    /\ napi.secrets = {}
    /\ Len(file.entries) = 1

----------------------------------------------------------------------------
(* Properties of the error taxonomy *)

Conversions == {"error_code", "NapiKeystoreError::from", "Error::from"}

Codes ==
    {"ERR_PLATFORM_NOT_SUPPORTED", "ERR_KEY_NOT_FOUND", "ERR_ACCESS_DENIED",
     "ERR_IO", "ERR_SERIALIZATION", "ERR_PLATFORM"}

\* The error a conversion was given, and the code in what it returned.
ConvertedError(c) == c.value[1]
CodeOf(c) ==
    CASE c.op = "error_code" -> c.result.val
      [] c.op = "NapiKeystoreError::from" -> c.result.val.code
      [] c.op = "Error::from" -> Head(c.result.val.reason)

\* C21: every conversion returns one of the six code strings, and any two
\* conversions, by the same mapping or by two of the three mappings, of
\* errors with any reasons return the same code exactly when the two
\* errors are of the same variant.
C21_StableCodes ==
    LET agree(c, d) ==
          (c.op \in Conversions /\ d.op \in Conversions) =>
              /\ CodeOf(c) \in Codes
              /\ CodeOf(d) \in Codes
              /\ (CodeOf(c) = CodeOf(d)) <=>
                     (ConvertedError(c).tag = ConvertedError(d).tag)
    IN  agree(prev, last) /\ agree(last, last)

\* Two Platform errors with different reasons were converted, one by
\* error_code and one into a napi::Error, to the same code ERR_PLATFORM.
C21_Witness ==
    /\ prev.op = "error_code"
    /\ last.op = "Error::from"
    /\ ConvertedError(prev) = [tag |-> "Platform", val |-> sA]
    /\ ConvertedError(last) = [tag |-> "Platform", val |-> sAB]
    /\ CodeOf(prev) = "ERR_PLATFORM"
    /\ CodeOf(last) = "ERR_PLATFORM"
    /\ last.result.val.reason = <<"ERR_PLATFORM", ": ", "Platform error: ">> \o sAB

----------------------------------------------------------------------------
(* Properties of is_available *)

IsAvailableStep(c) == c.op = "is_available" /\ is_available(c.inst)

\* C22: is_available of the fallback store returns true whatever the data
\* file is (absent, a document, not a document, not readable as text),
\* and leaves the file, its content and its permissions as they were.
C22_AlwaysAvailable ==
    [][LET c == last' IN
       IsAvailableStep(c) =>
           /\ c.result = Ok(True)
           /\ FileUntouched
           /\ fmode' = fmode]_vars

\* is_available returned true while the data file existed and was not
\* readable as text.
C22_Witness ==
    /\ last.op = "is_available"
    /\ last.result = Ok(True)
    /\ file.exists
    /\ fkind = NotUtf8

----------------------------------------------------------------------------
(* Properties of the bytes of the data file *)

\* The characters serde_json writes for a document: punctuation, white
\* space, digits and the letters of the three field names.
JsonChars ==
    {"{", "}", "[", "]", "\"", ":", ",", " ", "\n", "#",
     "0", "1", "2", "3", "4", "5", "6", "7", "8", "9",
     "c", "e", "h", "i", "n", "o", "p", "r", "s", "t", "x"}

HasOpaqueChar(s) == \E k \in 1..Len(s) : s[k] \notin JsonChars

\* str::contains
contains(hay, needle) ==
    \E k \in 0..(Len(hay) - Len(needle)) :
        \A j \in 1..Len(needle) : hay[k + j] = needle[j]

\* The strings the set_password calls that succeeded were given.
StoredStrings(ids) ==
    UNION {{id[1], id[2], shadow[id].val} : id \in {i \in ids : shadow[i].st = "live"}}

\* The plaintexts sealed in the records of the document.
SealedStrings == {file.entries[j].ciphertext.pt : j \in 1..Len(file.entries)}

Opaque(covered(_)) ==
    LET bytes == raw_bytes(file) IN
    \A s \in StoredStrings(CodecIdentities) \cup SealedStrings :
        covered(s) => ~contains(bytes, s)

\* C23, as claimed: the bytes of the data file contain no service,
\* account or value that a set_password was given, whatever the string.
C23_OpacityAnyString == LET any(s) == TRUE IN Opaque(any)

\* C23: the bytes of the data file contain no service, account or value
\* that a set_password was given, and no sealed plaintext, when the string
\* has a character that is none of the characters of a document's JSON
\* text.
C23_Opacity == Opaque(HasOpaqueChar)

\* ("a","b") is stored with the value "é" and ("a:b","c") with "c:v" in a
\* document of two records; the bytes hold neither "a", "é" nor "c:v",
\* and they hold "c", an account that was given.
C23_Witness ==
    /\ shadow[<<sA, sB>>] = Live(sU)
    /\ shadow[<<sAB, sC>>] = Live(sCV)
    /\ Len(file.entries) = 2
    /\ ~contains(raw_bytes(file), sA)
    /\ ~contains(raw_bytes(file), sU)
    /\ ~contains(raw_bytes(file), sCV)
    /\ contains(raw_bytes(file), sC)

----------------------------------------------------------------------------
(* Properties of the nonces *)

\* C24: the record a successful set_password writes is sealed with a
\* nonce that no earlier call drew (the nonces drawn so far are
\* 1..nonceCtr), and its nonce and its ciphertext differ from those of
\* every record the document held before the call and of every other
\* record it holds after the call, also when the call replaces the
\* record of its identity with a record of the same value.
C24_FreshNonce ==
    [][LET c == last' IN
       (SetStep(c) /\ c.result.tag = "Ok") =>
           \E j \in 1..Len(file'.entries) :
               LET e == file'.entries[j] IN
               /\ e.ciphertext.pt = format(c.service, c.account, c.value)
               /\ decrypt_ok(c.key, e.nonce, e.ciphertext)
               /\ e.nonce \notin 1..nonceCtr
               /\ \A k \in 1..Len(file.entries) :
                      /\ file.entries[k].nonce # e.nonce
                      /\ file.entries[k].ciphertext # e.ciphertext
               /\ \A k \in 1..Len(file'.entries) :
                      k # j => /\ file'.entries[k].nonce # e.nonce
                               /\ file'.entries[k].ciphertext # e.ciphertext]_vars

\* set_password("a","b","v") was called twice in a row: the document
\* holds one record, sealed with the second nonce drawn.
C24_Witness ==
    /\ prev.op = "set" /\ prev.result = Ok(Unit)
    /\ last.op = "set" /\ last.result = Ok(Unit)
    /\ TargetOf(prev) = <<sA, sB>> /\ TargetOf(last) = <<sA, sB>>
    /\ prev.value = sV /\ last.value = sV
    /\ nonceCtr = 2
    /\ Len(file.entries) = 1
    /\ file.entries[1].nonce = 2
    /\ file.entries[1].ciphertext = encrypt(last.key, 2, format(sA, sB, sV))

----------------------------------------------------------------------------
(* Properties of the calls that do not save *)

\* C25: get_password leaves the data file, its content and its
\* permissions as they were; so does a delete_password that returns
\* KeyNotFound; and when the data file does not exist, get_password and
\* delete_password return KeyNotFound and the file still does not exist.
C25_ReadOnlyCalls ==
    [][LET c == last' IN
       /\ GetStep(c) => (FileUntouched /\ fmode' = fmode)
       /\ (DeleteStep(c) /\ c.result.tag = "KeyNotFound") =>
              (FileUntouched /\ fmode' = fmode)
       /\ ((GetStep(c) \/ DeleteStep(c)) /\ ~file.exists) =>
              /\ c.result = KeyNotFound(c.service, c.account)
              /\ ~file'.exists]_vars

\* get_password and then delete_password were called while the data
\* file did not exist: both returned KeyNotFound and there is no file.
C25_Witness ==
    /\ prev.op = "get" /\ prev.result = KeyNotFound(sA, sB)
    /\ last.op = "delete" /\ last.result = KeyNotFound(sA, sB)
    /\ ~file.exists
    /\ fmode = NoMode
    /\ nonceCtr = 0

----------------------------------------------------------------------------
(* Properties of the scans *)

\* The indices of the records of the document that decrypt under the key
\* to the identity, and the lowest of them.
Matches(f, key, id) ==
    {j \in 1..Len(f.entries) : identity_of(key, f.entries[j]) = id}
FirstMatch(f, key, id) ==
    CHOOSE j \in Matches(f, key, id) : \A k \in Matches(f, key, id) : j <= k

\* C26: get_password returns the value of the record of lowest index
\* among those whose decrypted identity is (service, account), and
\* KeyNotFound when there is none; a set_password that finds a match
\* replaces the record of lowest index and leaves every other record,
\* later matches included, where it was; a delete_password that finds a
\* match removes the record of lowest index and keeps the others in
\* order.
C26_LowestIndex ==
    [][LET c == last'
           hits == Matches(file, c.key, TargetOf(c))
           first == FirstMatch(file, c.key, TargetOf(c))
       IN
       /\ GetStep(c) =>
              c.result = IF hits = {}
                         THEN KeyNotFound(c.service, c.account)
                         ELSE Ok(splitn(3, file.entries[first].ciphertext.pt)[3])
       /\ (SetStep(c) /\ hits # {}) =>
              /\ Len(file'.entries) = Len(file.entries)
              /\ file'.entries[first].nonce = nonceCtr'
              /\ \A j \in 1..Len(file.entries) :
                     j # first => file'.entries[j] = file.entries[j]
       /\ (DeleteStep(c) /\ hits # {}) =>
              /\ Len(file'.entries) = Len(file.entries) - 1
              /\ \A j \in 1..Len(file'.entries) :
                     file'.entries[j] =
                         file.entries[IF j < first THEN j ELSE j + 1]]_vars

\* Two records decrypt to the identity ("a","b"), the first with the value
\* "c:v" and the second with another value; get_password("a","b") returned
\* "c:v".
C26_Witness ==
    /\ last.op = "get"
    /\ TargetOf(last) = <<sA, sB>>
    /\ last.result = Ok(sCV)
    /\ Len(file.entries) = 2
    /\ Matches(file, last.key, <<sA, sB>>) = {1, 2}
    /\ splitn(3, file.entries[1].ciphertext.pt)[3] = sCV
    /\ splitn(3, file.entries[2].ciphertext.pt)[3] # sCV

----------------------------------------------------------------------------
(* Properties of the delimiter *)

\* C27: every sealed plaintext splits at its first two ':' into a service
\* and an account that hold no ':' and a rest; the record that
\* set_password("a:b", "c", v) writes is appended, it matches the identity
\* ("a","b") with the value "c:" followed by v, and no record of the
\* document it leaves matches ("a:b","c"), so that the next
\* set_password("a:b", "c", v2) appends again.
C27_DelimiterBoundary ==
    [][LET c == last' IN
       (SetStep(c) /\ c.result.tag = "Ok") =>
           /\ \A j \in 1..Len(file'.entries) :
                  LET pt == file'.entries[j].ciphertext.pt
                      parts == splitn(3, pt)
                  IN  /\ Len(parts) = 3
                      /\ NoColon(parts[1])
                      /\ NoColon(parts[2])
                      /\ pt = parts[1] \o <<Colon>> \o parts[2] \o <<Colon>> \o parts[3]
           /\ TargetOf(c) = <<sAB, sC>> =>
                  /\ Len(file'.entries) = Len(file.entries) + 1
                  /\ LET e == file'.entries[Len(file'.entries)] IN
                     /\ e.nonce = nonceCtr'
                     /\ entry_matches(c.key, e, sA, sB)
                     /\ ~entry_matches(c.key, e, sAB, sC)
                     /\ splitn(3, e.ciphertext.pt)[3] = sC \o <<Colon>> \o c.value
                  /\ derive_index(file', c.key, sAB, sC) = 0]_vars

\* set_password("a:b","c","v") and then set_password("a:b","c","w") were
\* called on an empty document: it holds two records, and
\* get_password("a","b") would return "c:v".
C27_Witness ==
    /\ prev.op = "set" /\ TargetOf(prev) = <<sAB, sC>> /\ prev.value = sV
    /\ last.op = "set" /\ TargetOf(last) = <<sAB, sC>> /\ last.value = sW
    /\ last.result = Ok(Unit)
    /\ nonceCtr = 2
    /\ Len(file.entries) = 2
    /\ get_password_result(file, last.key, sA, sB) = Ok(sCV)
    /\ get_password_result(file, last.key, sAB, sC) = KeyNotFound(sAB, sC)

----------------------------------------------------------------------------
(* The store as a map from identity to value *)

\* The map the callers have built: shadow, where it is live.
MapDomain == {id \in AllIdentities : shadow[id].st = "live"}

\* C34: as long as no set_password was given a service or account holding
\* ':', the store behaves as the map from identity to value that the
\* successful calls built: set_password succeeds; get_password for an
\* identity without ':' returns the map's value, and KeyNotFound exactly
\* when the identity is not in the map; delete_password returns Ok
\* exactly when the identity is in the map, and KeyNotFound otherwise;
\* after every call the document holds as many records as the map has
\* identities, and a get_password of any such identity would return the
\* map's value.
C34_RefinesMap ==
    [][LET c == last'
           id == TargetOf(c)
       IN
       (StoreStep(c) /\ PlainHistory' /\ IdNoColon(id)) =>
           /\ SetStep(c) => c.result = Ok(Unit)
           /\ GetStep(c) =>
                  /\ c.result = Expected(id)
                  /\ (c.result.tag = "KeyNotFound") <=> (id \notin MapDomain)
           /\ DeleteStep(c) =>
                  /\ (c.result = Ok(Unit)) <=> (id \in MapDomain)
                  /\ (c.result = KeyNotFound(c.service, c.account))
                         <=> (id \notin MapDomain)
           /\ Len(file'.entries) = Cardinality(MapDomain')
           /\ \A other \in {o \in Identities : IdNoColon(o)} :
                  get_password_result(file', c.key, other[1], other[2])
                      = Expected(other)']_vars

\* The map holds ("a","b") and ("x","b"), ("a","c") was deleted from it,
\* the document holds two records, and the get_password("a","b") that
\* completed last returned the map's value "w".
C34_Witness ==
    /\ PlainHistory
    /\ MapDomain = {<<sA, sB>>, <<sX, sB>>}
    /\ shadow[<<sA, sC>>] = Deleted
    /\ shadow[<<sA, sB>>] = Live(sW)
    /\ Len(file.entries) = 2
    /\ last.op = "get"
    /\ TargetOf(last) = <<sA, sB>>
    /\ last.result = Ok(sW)

----------------------------------------------------------------------------
(* Frame of set_password and delete_password *)

\* The records of a document that are not records of the identity under
\* the key: those of other identities and those that do not decrypt.
Others(f, key, id) ==
    LET foreign(e) == identity_of(key, e) # id
    IN  SelectSeq(f.entries, foreign)

----------------------------------------------------------------------------
(* An instance whose key is not the key of the records *)

\* The indices of the records that were sealed, under any key, for the
\* identity.
SealedFor(f, id) ==
    {j \in 1..Len(f.entries) :
        LET parts == splitn(3, f.entries[j].ciphertext.pt) IN
        Len(parts) = 3 /\ <<parts[1], parts[2]>> = id}

\* C36: when the document holds records sealed for an identity and none
\* of them was sealed under the key of the calling instance,
\* get_password and delete_password for that identity return KeyNotFound
\* and delete_password leaves the document as it is, and set_password
\* appends its record after the records the document held, which stay as
\* they were.
C36_ForeignKey ==
    [][LET c == last'
           id == TargetOf(c)
           theirs == SealedFor(file, id)
       IN
       (StoreStep(c) /\ theirs # {}
          /\ \A j \in theirs : file.entries[j].ciphertext.k # c.key) =>
           /\ GetStep(c) => c.result = KeyNotFound(c.service, c.account)
           /\ DeleteStep(c) =>
                  /\ c.result = KeyNotFound(c.service, c.account)
                  /\ file' = file
           /\ SetStep(c) =>
                  /\ c.result = Ok(Unit)
                  /\ Len(file'.entries) = Len(file.entries) + 1
                  /\ SubSeq(file'.entries, 1, Len(file.entries)) = file.entries
                  /\ file'.entries[Len(file'.entries)].ciphertext.k = c.key]_vars

\* The key file was lost and an instance was constructed with the second
\* key; its set_password("a","b","v") completed last: the document holds
\* the record the first key sealed for ("a","b") and, after it, the new
\* one.
C36_Witness ==
    /\ last.op = "set"
    /\ TargetOf(last) = <<sA, sB>>
    /\ last.result = Ok(Unit)
    /\ last.key = 2
    /\ Len(file.entries) = 2
    /\ SealedFor(file, <<sA, sB>>) = {1, 2}
    /\ file.entries[1].ciphertext.k = 1
    /\ file.entries[2].ciphertext.k = 2

----------------------------------------------------------------------------
(* Properties of the Windows adapter *)

WindowsSetStep(c) ==
    c.op = "set" /\ windows_set_password(c.service, c.account, c.value)

\* What get_password returns for an identity on a credential manager.
windows_lookup(n, id) ==
    LET found == credentials_named(n, pcwstr(credential_name(id[1], id[2]))) IN
    IF found = {} THEN << >> ELSE <<(CHOOSE e \in found : TRUE)[3]>>

\* C37, as claimed: two different identities never have the same
\* credential name, and a set_password leaves the credential of every
\* identity other than its own as it was.
C37_DistinctNames ==
    [][LET c == last' IN
       WindowsSetStep(c) =>
           \A id \in WindowsIdentities :
               id # TargetOf(c) =>
                   /\ credential_name(id[1], id[2])
                          # credential_name(c.service, c.account)
                   /\ windows_lookup(napi', id) = windows_lookup(napi, id)]_vars

====
